---------------------------- MODULE Spec2Model ----------------------------
(***************************************************************************)
(* A model of the content-marketing pipeline of thecompletelazytrend       *)
(* backend: the TikTok scraper (scrapeTikTokVideos), the batch analyser     *)
(* (analyzeVideosForTrendQuery), the query normaliser                       *)
(* (generateSearchQueries), the strategy synthesiser (reconstructVideos)    *)
(* and the workflow the test page drives.  The repository keeps several     *)
(* revisions of the same service file; where they differ the revision is a  *)
(* variable of the model, named after the file that holds it.               *)
(***************************************************************************)
EXTENDS Integers, Sequences, FiniteSets, TLC

(***************************************************************************)
(* Bounds of the model.                                                     *)
(***************************************************************************)
\* Largest videosPerQuery a run is started with.
MaxVPQ == 2
\* Largest number of hits one search response carries.
MaxHits == 3
\* Largest number of videos getVideosForTrendQuery hands to the analysis loop.
MaxVideos == 3
\* Longest reply text (in tokens) of the multimodal model.
MaxReplyLen == 4
\* Longest strategy text (in tokens) of the text model.
MaxStrategyLen == 3
\* Largest number of items (quoted strings, lines) in a reply to the query prompt.
MaxItems == 5
\* Most calls of the persistence functions in one run.
MaxCalls == 2
\* Most queries of a scrape, and most trend query batches of an analysis run.
MaxBatches == 2
\* Most files in the listing of the bucket, and most database records.
MaxFiles == 2
MaxRecords == 2
\* Most elements of the analyzedVideos array of a request.
MaxAnalyzed == 2
\* Most analysed videos handed to one call of reconstructVideos for its prompt.
MaxPromptVideos == 1
\* Most videos of one query whose processing the model of the bucket follows.
MaxStaged == 2

Min(a, b) == IF a <= b THEN a ELSE b

RECURSIVE SumSeq(_)
SumSeq(s) == IF s = <<>> THEN 0 ELSE Head(s) + SumSeq(Tail(s))

\* All texts of at most n symbols over an alphabet.
TextsUpTo(alphabet, n) == UNION {[1..k -> alphabet] : k \in 0..n}

(***************************************************************************)
(* String.prototype.match for the regular expressions of the services.  A  *)
(* pattern is a sequence of nodes: one symbol of a set, one symbol outside *)
(* a set, a starred sub-pattern (greedy or lazy), the end of the text.     *)
(* MatchFrom follows the backtracking order of the engine, so the end it    *)
(* returns is that of the match JavaScript reports; -1 is no match.         *)
(***************************************************************************)
In(S) == [t |-> "set", s |-> S]
NotIn(S) == [t |-> "nset", s |-> S]
Star(r) == [t |-> "star", r |-> r, lazy |-> FALSE]
LazyStar(r) == [t |-> "star", r |-> r, lazy |-> TRUE]
EndOfText == [t |-> "eol"]
Alt(a, b) == [t |-> "alt", a |-> a, b |-> b]

RECURSIVE MatchFrom(_, _, _)
MatchFrom(re, text, i) ==
  IF re = <<>> THEN i
  ELSE LET h == Head(re)
           rest == Tail(re)
       IN CASE h.t = "set" ->
                 IF i <= Len(text) /\ text[i] \in h.s
                   THEN MatchFrom(rest, text, i + 1) ELSE -1
            [] h.t = "nset" ->
                 IF i <= Len(text) /\ text[i] \notin h.s
                   THEN MatchFrom(rest, text, i + 1) ELSE -1
            [] h.t = "eol" ->
                 IF i = Len(text) + 1 THEN MatchFrom(rest, text, i) ELSE -1
            [] h.t = "alt" ->
                 LET first == MatchFrom(h.a \o rest, text, i)
                 IN IF first # -1 THEN first
                    ELSE MatchFrom(h.b \o rest, text, i)
            [] h.t = "star" ->
                 IF h.lazy
                   THEN LET skip == MatchFrom(rest, text, i)
                        IN IF skip # -1 THEN skip
                           ELSE MatchFrom(h.r \o re, text, i)
                   ELSE LET more == MatchFrom(h.r \o re, text, i)
                        IN IF more # -1 THEN more
                           ELSE MatchFrom(rest, text, i)

\* The leftmost match at or after position from: [at, end) or at = 0 for null.
RECURSIVE Search(_, _, _)
Search(re, text, from) ==
  IF from > Len(text) + 1 THEN [at |-> 0, end |-> 0]
  ELSE IF MatchFrom(re, text, from) # -1
    THEN [at |-> from, end |-> MatchFrom(re, text, from)]
    ELSE Search(re, text, from + 1)

\* match[0]
Matched(text, m) == SubSeq(text, m.at, m.end - 1)

VARIABLES
  \* ---- scrapeTikTokVideos ----
  sVersion,        \* which revision of rapidApiService.js runs
  searchQueries,   \* argument: the list of query terms
  videosPerQuery,  \* argument
  userId,          \* argument: TRUE when an owner id was supplied
  spc,             \* position of the run: "query", "video", "done"
  qi,              \* index of the query of the outer for loop
  vi,              \* index i of the inner for loop
  trendQueryId,    \* 0 for null, else the id saveTrendQuery returned
  rawHits,         \* per query: hits of the accepted search response, -1 before / when none
  toProcess,       \* videosToProcess.length of the current query
  attempts,        \* log: one entry per candidate the inner loop reached
  allVideos,       \* the accumulated result list
  last,            \* outcome of the candidate processed last
  lastUrl,         \* media URL chosen for it
  searchResponse,  \* <<shape and code of the body>> the search made last answered, <<>> before
  video,           \* <<streams of the hit>> the inner loop processed last, <<>> for none
  \* ---- analyzeVideosForTrendQuery ----
  aFiles,          \* files of the trend query in the storage bucket
  aVideos,         \* videos.length, -1 before getVideosForTrendQuery
  apc,             \* "start", "loop", "done"
  ai,              \* position of the for-of loop in videos
  aCalls,          \* per video: how often analyzeVideo was called
  aLog,            \* per video reached: "ok", or the call of the body that threw
  analysed,        \* videos whose record carries an analysis
  aLast,           \* outcome of the video processed last
  \* ---- the workflow and the test page that drives it ----
  wStage,          \* last stage the orchestrator completed
  wRunning,        \* number of the stage in progress, 0 for none
  wLog,            \* stages in the order they were completed
  wVpq,            \* videosPerQuery of the request
  wSizes,          \* size of the collection each completed stage produced
  events,          \* progress events in flight to the page
  cOpen,           \* the page's EventSource is open
  cPhase,          \* page: "idle", "waiting", "success", "error"
  cCompleted,      \* progress steps of the page with class completed
  cActive,         \* progress steps of the page with class active
  cFailed,         \* progress step marked red, 0 for none
  \* ---- reconstructVideos ----
  rVersion,        \* which revision of reconstructVideos runs
  rCount,          \* analyzedVideos.length
  rUserId,         \* TRUE when an owner id was supplied
  rpc,             \* "start", "returned", "threw"
  rContent,        \* the text of the model, <<>> before it arrived
  strategy,        \* the value returned
  recommendationId, \* 0 for none, else the id the returned value carries
  rSaves,          \* the outcomes of the calls of saveRecommendation, in order
  \* ---- generateSearchQueries ----
  nVersion,        \* which revision of generateSearchQueries runs
  npc,             \* "start", "returned", "threw"
  nContent,        \* the text of the model, <<>> before it arrived
  nResult,         \* the value returned
  nTried,          \* the extraction strategies in the order they were tried
  nBy,             \* the strategy whose value was returned
  \* ---- summarizeTrends ----
  mVersion,        \* which revision of summarizeTrends runs
  mUserId,         \* TRUE when an owner id was supplied
  mpc,             \* "start", "returned", "threw"
  mReceived,       \* TRUE once the text of the model has arrived
  mContent,        \* the text of the model, <<>> before it arrived
  summary,         \* the value returned
  mSaves,          \* the outcomes of the calls of saveRecommendation, in order
  \* ---- saveTrendQuery, saveRecommendation, saveTikTokVideo ----
  pVersion,        \* which revision of the persistence functions runs
  pUsers,          \* the kinds of rows in the users table
  pRows,           \* the rows inserted into the other tables, in order
  pCalls,          \* number of calls made
  pLast,           \* the call made last
  \* ---- the awaits of the scrape and analysis loops ----
  zStage,          \* "scrape" or "analyze"
  zBatches,        \* number of queries, or of trend query batches
  zq,              \* the query or batch the outer loop is at
  zv,              \* the video the inner loop is at, 0 before the first
  zn,              \* videos of the current query or batch
  zop,             \* the operation of the current item the code is at
  zWaiting,        \* TRUE while the code is suspended in an await
  inflight,        \* the external operations issued and not yet settled
  zStarted,        \* the items in the order their first operation was issued
  zDone,           \* the items that finished or failed
  \* ---- getVideosFromStorageBucket ----
  gFiles,          \* the listing of the videos folder: file names in order
  gArg,            \* argument dbVideos, the id of a record being its position
  gTable,          \* the rows the select on tiktok_videos returns
  gpc,             \* "idle" or "loop"
  gi,              \* position of the for-of loop in files
  videoObjects,    \* the list the call in progress has built
  gResults,        \* what the calls made so far returned or threw
  \* ---- the route POST /api/summarize-trends ----
  tBody,           \* req.body.analyzedVideos: its kind and, for an array, its elements
  tpc,             \* "received", "projected" or "done"
  tAnalyses,       \* videoAnalyses, the projected elements
  tResponses,      \* the responses sent for the request
  tModelCalls,     \* calls of summarizeTrends made
  \* ---- the prompt reconstructVideos sends ----
  yVersion,        \* revision of reconstructVideos
  yInputs,         \* the analyzedVideos argument of the first and of the second call
  yPrompts,        \* the analysis data inlined in the prompt of each call made
  \* ---- the route POST /api/webhook ----
  hVersion,        \* "stripeRoutes" or "part001"
  hStripe,         \* "real", or "mock" when the import of stripe failed
  hpc,             \* "idle", "verified", "processed"
  hEvent,          \* the request being handled: signature, event type, what processing will meet
  hChanged,        \* TRUE when the request being handled changed a users row
  hResponses,      \* the responses sent for the request being handled
  hLog,            \* <<the request handled last, with its responses>>, <<>> before
  \* ---- scrapeTikTokVideos with the bucket and the tables it writes ----
  bPersist,        \* revision of the persistence functions
  bOwner,          \* TRUE when an owner id was supplied
  bUsers,          \* the users table
  bHits,           \* per query: the videos its search will yield to process
  bpc,             \* "query", "video", "done"
  bq,              \* index of the query of the outer loop
  bi,              \* index of the inner loop
  bn,              \* videosToProcess.length of the current query
  bTrendQueryId,   \* 0 for null, else the position of the row in trendQueries
  bNow,            \* Date.now() when the last file name was made
  uploads,         \* the uploads to the bucket, in order: file name and video
  trendQueries,    \* the rows inserted in trend_queries
  videoRows,       \* the rows inserted in tiktok_videos
  bAll,            \* allVideos
  \* ---- the system user of part_002, concurrent calls ----
  kop,             \* per call: saveTrendQuery or saveRecommendation, called without a usable owner
  kpc,             \* per call: where it stands
  kUser,           \* per call: insertData.user_id, the number of the users row, 0 while unset
  systemUsers      \* the number of users rows with email system@lazytrend.com

scrapeVars == <<sVersion, searchQueries, videosPerQuery, userId, spc, qi, vi,
                trendQueryId, rawHits, toProcess, attempts, allVideos, last,
                lastUrl, searchResponse, video>>

analyzeVars == <<aFiles, aVideos, apc, ai, aCalls, aLog, analysed, aLast>>

workflowVars == <<wStage, wRunning, wLog, wVpq, wSizes, events, cOpen, cPhase,
                  cCompleted, cActive, cFailed>>

reconstructVars == <<rVersion, rCount, rUserId, rpc, rContent, strategy,
                     recommendationId, rSaves>>

normalizeVars == <<nVersion, npc, nContent, nResult, nTried, nBy>>

summarizeVars == <<mVersion, mUserId, mpc, mReceived, mContent, summary,
                   mSaves>>

persistVars == <<pVersion, pUsers, pRows, pCalls, pLast>>

sequenceVars == <<zStage, zBatches, zq, zv, zn, zop, zWaiting, inflight,
                  zStarted, zDone>>

matchVars == <<gFiles, gArg, gTable, gpc, gi, videoObjects, gResults>>

routeVars == <<tBody, tpc, tAnalyses, tResponses, tModelCalls>>

promptVars == <<yVersion, yInputs, yPrompts>>

webhookVars == <<hVersion, hStripe, hpc, hEvent, hChanged, hResponses, hLog>>

storeVars == <<bPersist, bOwner, bUsers, bHits, bpc, bq, bi, bn,
               bTrendQueryId, bNow, uploads, trendQueries, videoRows, bAll>>

fallbackVars == <<kop, kpc, kUser, systemUsers>>

vars == <<scrapeVars, analyzeVars, workflowVars, reconstructVars,
          normalizeVars, summarizeVars, persistVars, sequenceVars, matchVars,
          routeVars, promptVars, webhookVars, storeVars, fallbackVars>>

\* The variables of the other components, which a run of one leaves alone.
notScrape == <<analyzeVars, workflowVars, reconstructVars, normalizeVars,
               summarizeVars, persistVars, sequenceVars, matchVars,
               routeVars, promptVars, webhookVars, storeVars, fallbackVars>>
notAnalyze == <<scrapeVars, workflowVars, reconstructVars, normalizeVars,
                summarizeVars, persistVars, sequenceVars, matchVars,
                routeVars, promptVars, webhookVars, storeVars, fallbackVars>>
notWorkflow == <<scrapeVars, analyzeVars, reconstructVars, normalizeVars,
                 summarizeVars, persistVars, sequenceVars, matchVars,
                 routeVars, promptVars, webhookVars, storeVars, fallbackVars>>
notReconstruct == <<scrapeVars, analyzeVars, workflowVars, normalizeVars,
                    summarizeVars, persistVars, sequenceVars, matchVars,
                    routeVars, promptVars, webhookVars, storeVars,
                    fallbackVars>>
notNormalize == <<scrapeVars, analyzeVars, workflowVars, reconstructVars,
                  summarizeVars, persistVars, sequenceVars, matchVars,
                  routeVars, promptVars, webhookVars, storeVars,
                  fallbackVars>>
notSummarize == <<scrapeVars, analyzeVars, workflowVars, reconstructVars,
                  normalizeVars, persistVars, sequenceVars, matchVars,
                  routeVars, promptVars, webhookVars, storeVars,
                  fallbackVars>>
notPersist == <<scrapeVars, analyzeVars, workflowVars, reconstructVars,
                normalizeVars, summarizeVars, sequenceVars, matchVars,
                routeVars, promptVars, webhookVars, storeVars, fallbackVars>>
notSequence == <<scrapeVars, analyzeVars, workflowVars, reconstructVars,
                 normalizeVars, summarizeVars, persistVars, matchVars,
                 routeVars, promptVars, webhookVars, storeVars, fallbackVars>>
notMatch == <<scrapeVars, analyzeVars, workflowVars, reconstructVars,
              normalizeVars, summarizeVars, persistVars, sequenceVars,
              routeVars, promptVars, webhookVars, storeVars, fallbackVars>>
notRoute == <<scrapeVars, analyzeVars, workflowVars, reconstructVars,
              normalizeVars, summarizeVars, persistVars, sequenceVars,
              matchVars, promptVars, webhookVars, storeVars, fallbackVars>>
notPrompt == <<scrapeVars, analyzeVars, workflowVars, reconstructVars,
               normalizeVars, summarizeVars, persistVars, sequenceVars,
               matchVars, routeVars, webhookVars, storeVars, fallbackVars>>
notWebhook == <<scrapeVars, analyzeVars, workflowVars, reconstructVars,
                normalizeVars, summarizeVars, persistVars, sequenceVars,
                matchVars, routeVars, promptVars, storeVars, fallbackVars>>
notStore == <<scrapeVars, analyzeVars, workflowVars, reconstructVars,
              normalizeVars, summarizeVars, persistVars, sequenceVars,
              matchVars, routeVars, promptVars, webhookVars, fallbackVars>>
notFallback == <<scrapeVars, analyzeVars, workflowVars, reconstructVars,
                 normalizeVars, summarizeVars, persistVars, sequenceVars,
                 matchVars, routeVars, promptVars, webhookVars, storeVars>>

\* A component that does not run.
ScrapeOff ==
  /\ sVersion = "feedDownload" /\ searchQueries = <<>> /\ videosPerQuery = 0
  /\ userId = FALSE /\ spc = "off" /\ qi = 0 /\ vi = 0 /\ trendQueryId = 0
  /\ rawHits = <<>> /\ toProcess = 0 /\ attempts = <<>> /\ allVideos = <<>>
  /\ last = "none" /\ lastUrl = "none" /\ searchResponse = <<>> /\ video = <<>>
AnalyzeOff ==
  /\ aFiles = 0 /\ aVideos = -1 /\ apc = "off" /\ ai = 0 /\ aCalls = <<>>
  /\ aLog = <<>> /\ analysed = {} /\ aLast = "none"
WorkflowOff ==
  /\ wStage = "START" /\ wRunning = 0 /\ wLog = <<>> /\ wVpq = 0
  /\ wSizes = <<>> /\ events = <<>> /\ cOpen = FALSE /\ cPhase = "off"
  /\ cCompleted = {} /\ cActive = {} /\ cFailed = 0
ReconstructOff ==
  /\ rVersion = "headings" /\ rCount = 0 /\ rUserId = FALSE /\ rpc = "off"
  /\ rContent = <<>> /\ strategy = <<>> /\ recommendationId = 0
  /\ rSaves = <<>>
NormalizeOff ==
  /\ nVersion = "openrouter" /\ npc = "off" /\ nContent = <<>>
  /\ nResult = [kind |-> "none"] /\ nTried = <<>> /\ nBy = "none"
PersistOff ==
  /\ pVersion = "supabase" /\ pUsers = {} /\ pRows = <<>> /\ pCalls = -1
  /\ pLast = <<>>
SummarizeOff ==
  /\ mVersion = "openrouter" /\ mUserId = FALSE /\ mpc = "off"
  /\ mReceived = FALSE /\ mContent = <<>> /\ summary = <<>> /\ mSaves = <<>>
MatchOff ==
  /\ gFiles = <<>> /\ gArg = <<>> /\ gTable = <<>> /\ gpc = "off" /\ gi = 0
  /\ videoObjects = <<>> /\ gResults = <<>>
SequenceOff ==
  /\ zStage = "scrape" /\ zBatches = 0 /\ zq = 0 /\ zv = 0 /\ zn = 0 /\ zop = 0
  /\ zWaiting = FALSE /\ inflight = <<>> /\ zStarted = <<>> /\ zDone = {}
PromptOff ==
  /\ yVersion = "headings" /\ yInputs = <<>> /\ yPrompts = <<>>
RouteOff ==
  /\ tBody = [kind |-> "missing", videos |-> <<>>] /\ tpc = "off" /\ tAnalyses = <<>>
  /\ tResponses = <<>> /\ tModelCalls = 0
StoreOff ==
  /\ bPersist = "supabase" /\ bOwner = FALSE /\ bUsers = {} /\ bHits = <<>> /\ bpc = "off"
  /\ bq = 0 /\ bi = 0 /\ bn = 0 /\ bTrendQueryId = 0 /\ bNow = 0 /\ uploads = <<>>
  /\ trendQueries = <<>> /\ videoRows = <<>> /\ bAll = <<>>
WebhookOff ==
  /\ hVersion = "stripeRoutes" /\ hStripe = "real" /\ hpc = "off"
  /\ hEvent = <<>> /\ hChanged = FALSE /\ hResponses = <<>> /\ hLog = <<>>
FallbackOff ==
  /\ kop = <<>> /\ kpc = <<>> /\ kUser = <<>> /\ systemUsers = 0

(***************************************************************************)
(* scrapeTikTokVideos: three revisions.                                     *)
(*   "feedDownload"  src/src/services/rapidApiService.js (feedSearch, then  *)
(*                   a getVideo lookup per hit)                             *)
(*   "feedDirect"    src/unnamed/part_005:335 (feedSearch, stream URLs in   *)
(*                   the hit itself)                                        *)
(*   "trending"      src/unnamed/part_005:545 (trending API, no download)   *)
(***************************************************************************)
ScrapeVersions == {"feedDownload", "feedDirect", "trending"}

\* The argument lists the model runs the scraper on.
QueryLists == {<<>>, <<"q1">>, <<"q1", "q2">>}

\* What the search request of one query can come back with: a thrown network
\* error, or a body of one of the two upstream shapes with n hits.
Responses ==
  [kind : {"throws"}, code : {0}, n : {0}]
    \cup [kind : {"feed"}, code : {0, 1}, n : 0..MaxHits]
    \cup [kind : {"trending"}, code : {0}, n : 0..MaxHits]
    \cup [kind : {"nodata"}, code : {0}, n : {0}]

\* The guard before `continue` after the search request.
SearchAccepted(version, resp) ==
  IF version = "trending"
    THEN resp.kind = "trending"
    ELSE resp.kind = "feed" /\ resp.code = 0

\* videosFromApi.slice(0, videosPerQuery).length
SliceAll(n, count) == n
Slice(n, count) == Min(n, count)

\* One search hit together with what the later requests for it will answer.
GoodCandidate ==
  [hasId |-> TRUE, hasAuthor |-> TRUE, lookup |-> "ok",
   hdplay |-> TRUE, play |-> TRUE, wmplay |-> TRUE,
   download |-> "ok", upload |-> "ok", save |-> "ok"]

Candidates ==
  { [GoodCandidate EXCEPT !.hdplay = h, !.play = p, !.wmplay = w] :
      h \in BOOLEAN, p \in BOOLEAN, w \in BOOLEAN }
  \cup { [GoodCandidate EXCEPT !.hasId = FALSE],
         [GoodCandidate EXCEPT !.hasAuthor = FALSE],
         [GoodCandidate EXCEPT !.lookup = "throws"],
         [GoodCandidate EXCEPT !.lookup = "nodata"],
         [GoodCandidate EXCEPT !.download = "throws"],
         [GoodCandidate EXCEPT !.upload = "throws"],
         [GoodCandidate EXCEPT !.upload = "null"],
         [GoodCandidate EXCEPT !.save = "throws"],
         [GoodCandidate EXCEPT !.save = "norow"] }

\* The media URL the revision picks for a hit; "none" when it finds none.
MediaUrlWatermarkedFirst(version, c) ==
  IF version = "trending" THEN "page"
  ELSE IF c.wmplay THEN "wmplay"
  ELSE IF version = "feedDownload" /\ c.hdplay THEN "hdplay"
  ELSE IF c.play THEN "play" ELSE "none"
MediaUrlPageFallback(version, c) ==
  IF version = "feedDownload"
    THEN IF c.hdplay THEN "hdplay" ELSE IF c.play THEN "play"
         ELSE IF c.wmplay THEN "wmplay" ELSE "page"
    ELSE IF version = "feedDirect"
      THEN IF c.play THEN "play" ELSE IF c.wmplay THEN "wmplay" ELSE "page"
      ELSE "page"
MediaUrl(version, c) ==
  IF version = "feedDownload"
    THEN IF c.hdplay THEN "hdplay" ELSE IF c.play THEN "play"
         ELSE IF c.wmplay THEN "wmplay" ELSE "none"
    ELSE IF version = "feedDirect"
      THEN IF c.play THEN "play" ELSE IF c.wmplay THEN "wmplay" ELSE "none"
      ELSE "page"

\* Download of the chosen URL and upload of the bytes (the inner try block).
StageOutcome(c) ==
  IF c.download = "throws" THEN "downloadFail"
  ELSE IF c.upload # "ok" THEN "uploadFail"
  ELSE "staged"

\* saveTikTokVideo and the push: a thrown error, or a result without a row
\* (savedVideo.id then throws), lands in catch (dbError).
SaveOutcome(c) == IF c.save = "ok" THEN "ok" ELSE "saveFail"

\* The body of the inner for loop for one hit: the step at which it leaves.
ProcessOutcome(version, c) ==
  IF version = "feedDownload" THEN
    IF ~c.hasId THEN "invalid"
    ELSE IF ~c.hasAuthor THEN "noAuthor"
    ELSE IF c.lookup # "ok" THEN "lookupFail"
    ELSE IF MediaUrl(version, c) = "none" THEN "noUrl"
    ELSE IF StageOutcome(c) # "staged" THEN StageOutcome(c)
    ELSE SaveOutcome(c)
  ELSE IF version = "feedDirect" THEN
    IF ~c.hasId \/ ~c.hasAuthor THEN "invalid"
    ELSE IF MediaUrl(version, c) = "none" THEN "noUrl"
    ELSE IF StageOutcome(c) # "staged" THEN StageOutcome(c)
    ELSE SaveOutcome(c)
  ELSE
    IF ~c.hasId \/ ~c.hasAuthor THEN "invalid"
    ELSE SaveOutcome(c)

\* Whether the upstream exposes a media URL for the hit, as the revision reads
\* it: the getVideo lookup answers and carries hdplay, play or wmplay; the hit
\* carries play or wmplay; the trending shape exposes no stream and the page
\* URL stands in for it.
HasMedia(version, c) ==
  IF version = "feedDownload"
    THEN c.lookup = "ok" /\ (c.hdplay \/ c.play \/ c.wmplay)
    ELSE IF version = "feedDirect" THEN c.play \/ c.wmplay ELSE TRUE

\* The inner loop's i++ : every way out of the body is `continue`, a caught
\* error or the end of the body, so the loop goes on with the next hit.
NextIndexBreak(out, i) == IF out = "ok" THEN i + 1 ELSE MaxVPQ + MaxHits + 1
NextIndex(out, i) == i + 1

ScrapeInit ==
  /\ sVersion \in ScrapeVersions
  /\ searchQueries \in QueryLists
  /\ videosPerQuery \in 0..MaxVPQ
  /\ userId \in BOOLEAN
  /\ spc = "query"
  /\ qi = 1
  /\ vi = 0
  /\ trendQueryId = 0
  /\ rawHits = [k \in 1..Len(searchQueries) |-> -1]
  /\ toProcess = 0
  /\ attempts = <<>>
  /\ allVideos = <<>>
  /\ last = "none"
  /\ lastUrl = "none"
  /\ searchResponse = <<>>
  /\ video = <<>>
  /\ AnalyzeOff
  /\ WorkflowOff
  /\ ReconstructOff
  /\ NormalizeOff
  /\ SummarizeOff
  /\ PersistOff
  /\ SequenceOff
  /\ MatchOff
  /\ RouteOff
  /\ PromptOff
  /\ WebhookOff
  /\ StoreOff
  /\ FallbackOff

\* One pass through the head of the outer loop: saveTrendQuery when an owner
\* id is present (a failure is caught), the search request, the shape guard
\* and the slice.
BeginQuery ==
  /\ spc = "query"
  /\ qi <= Len(searchQueries)
  /\ \E saved \in BOOLEAN, resp \in Responses :
       /\ trendQueryId' = IF userId /\ saved THEN qi ELSE 0
       /\ searchResponse' = <<[kind |-> resp.kind, code |-> resp.code]>>
       /\ IF resp.kind # "throws" /\ SearchAccepted(sVersion, resp)
            THEN /\ rawHits' = [rawHits EXCEPT ![qi] = resp.n]
                 /\ toProcess' = Slice(resp.n, videosPerQuery)
                 /\ IF Slice(resp.n, videosPerQuery) > 0
                      THEN spc' = "video" /\ qi' = qi /\ vi' = 1
                      ELSE spc' = "query" /\ qi' = qi + 1 /\ vi' = 0
            ELSE /\ rawHits' = rawHits
                 /\ toProcess' = 0
                 /\ spc' = "query" /\ qi' = qi + 1 /\ vi' = 0
  /\ last' = "none"
  /\ lastUrl' = "none"
  /\ video' = <<>>
  /\ UNCHANGED <<sVersion, searchQueries, videosPerQuery, userId, attempts,
                 allVideos>>
  /\ UNCHANGED notScrape

\* One pass through the body of the inner loop.
ProcessVideo ==
  /\ spc = "video"
  /\ vi <= toProcess
  /\ \E c \in Candidates :
       LET out == ProcessOutcome(sVersion, c)
           nxt == NextIndex(out, vi)
       IN /\ attempts' = Append(attempts, [q |-> qi, i |-> vi, ok |-> (out = "ok"),
                                        media |-> HasMedia(sVersion, c)])
          /\ allVideos' = IF out = "ok"
                            THEN Append(allVideos, [q |-> qi, i |-> vi])
                            ELSE allVideos
          /\ last' = out
          /\ video' = <<[hdplay |-> c.hdplay, play |-> c.play, wmplay |-> c.wmplay]>>
          /\ lastUrl' = IF out \in {"invalid", "noAuthor", "lookupFail"}
                          THEN "none" ELSE MediaUrl(sVersion, c)
          /\ IF nxt <= toProcess
               THEN spc' = "video" /\ qi' = qi /\ vi' = nxt
               ELSE spc' = "query" /\ qi' = qi + 1 /\ vi' = 0
  /\ UNCHANGED <<sVersion, searchQueries, videosPerQuery, userId,
                 trendQueryId, rawHits, toProcess, searchResponse>>
  /\ UNCHANGED notScrape

\* return allVideos
ReturnVideos ==
  /\ spc = "query"
  /\ qi > Len(searchQueries)
  /\ spc' = "done"
  /\ UNCHANGED <<sVersion, searchQueries, videosPerQuery, userId, qi, vi,
                 trendQueryId, rawHits, toProcess, attempts, allVideos, last,
                 lastUrl, searchResponse, video>>
  /\ UNCHANGED notScrape

ScrapeNext == BeginQuery \/ ProcessVideo \/ ReturnVideos

SpecScrape == ScrapeInit /\ [][ScrapeNext]_vars

(***************************************************************************)
(* Properties of scrapeTikTokVideos.                                        *)
(***************************************************************************)
\* The entries of the log that belong to query k, in the order logged.
AttemptsOf(k) == SelectSeq(attempts, LAMBDA e : e.q = k)

\* The candidates of the log whose steps all succeeded, in the order logged.
RECURSIVE OkEntries(_)
OkEntries(s) ==
  IF s = <<>> THEN <<>>
  ELSE IF Head(s).ok
    THEN <<[q |-> Head(s).q, i |-> Head(s).i]>> \o OkEntries(Tail(s))
    ELSE OkEntries(Tail(s))

\* How many candidates of query k the inner loop has to have reached by now.
Reached(k) ==
  IF k < qi
    THEN IF rawHits[k] < 0 THEN 0 ELSE Min(rawHits[k], videosPerQuery)
    ELSE IF k = qi /\ spc = "video" THEN vi - 1 ELSE 0

\* The hits of all accepted search responses so far.
RawHitCount ==
  SumSeq([k \in 1..Len(searchQueries) |-> IF rawHits[k] < 0 THEN 0 ELSE rawHits[k]])

\* C1: a failure at any step of one candidate (validation, media lookup,
\* download, upload, metadata save) or of one query's search skips only that
\* item: the loop reaches every candidate of every accepted query in order,
\* the run never leaves the loop early, and the list is exactly the candidates
\* whose steps all succeeded, in the order they were reached.
C1_FailureSkipsOnlyItem ==
  /\ spc \in {"query", "video", "done"}
  /\ allVideos = OkEntries(attempts)
  /\ \A k \in 1..Len(searchQueries) :
       /\ Len(AttemptsOf(k)) = Reached(k)
       /\ \A j \in 1..Len(AttemptsOf(k)) : AttemptsOf(k)[j].i = j
  /\ \A j \in 1..(Len(attempts) - 1) : attempts[j].q <= attempts[j + 1].q
  /\ spc = "done" => qi = Len(searchQueries) + 1

\* C1 witness: a finished run in which the first candidate of a query failed
\* and the second was listed, and a later query listed one and lost one.
C1_Witness ==
  /\ spc = "done"
  /\ Len(attempts) = 4
  /\ ~attempts[1].ok /\ attempts[2].ok /\ attempts[3].ok /\ ~attempts[4].ok
  /\ allVideos = <<[q |-> 1, i |-> 2], [q |-> 2, i |-> 1]>>

\* Number of entries of the list that came from query k.
ListedOf(k) == Len(SelectSeq(allVideos, LAMBDA v : v.q = k))

\* C2: at every point of a run each query has contributed at most
\* videosPerQuery entries, and the list holds at most
\* videosPerQuery * searchQueries.length entries.
C2_AtMostPerQuery ==
  /\ \A k \in 1..Len(searchQueries) : ListedOf(k) <= videosPerQuery
  /\ Len(allVideos) <= videosPerQuery * Len(searchQueries)

\* C2 witness: a finished run where a search returned more hits than
\* videosPerQuery and the query contributed exactly videosPerQuery entries.
C2_Witness ==
  /\ spc = "done"
  /\ videosPerQuery > 0
  /\ \E k \in 1..Len(searchQueries) :
       rawHits[k] > videosPerQuery /\ ListedOf(k) = videosPerQuery

\* C3: a candidate for which no media URL can be resolved is never in the
\* list, the run goes on without raising, and once such a candidate was met
\* the list is strictly shorter than the number of raw hits.
C3_NoMediaNeverListed ==
  /\ spc \in {"query", "video", "done"}
  /\ \A j \in 1..Len(attempts) :
       ~attempts[j].media =>
          /\ ~attempts[j].ok
          /\ \A m \in 1..Len(allVideos) :
               allVideos[m] # [q |-> attempts[j].q, i |-> attempts[j].i]
  /\ (\E j \in 1..Len(attempts) : ~attempts[j].media) => Len(allVideos) < RawHitCount

\* C3 witness: a finished run that met a candidate without media URL, skipped
\* it, and listed the candidate after it.
C3_Witness ==
  /\ spc = "done"
  /\ \E j \in 1..(Len(attempts) - 1) :
       /\ ~attempts[j].media
       /\ attempts[j + 1].ok
       /\ attempts[j + 1].q = attempts[j].q
  /\ Len(allVideos) > 0

(***************************************************************************)
(* analyzeVideosForTrendQuery (src/src/scripts/analyzeAllVideos.js).        *)
(***************************************************************************)
\* Symbols of a reply of the multimodal model: the two braces, "m" for a
\* well-formed run of members, "x" for any other text.
ReplySymbols == {"{", "}", "m", "x"}
Replies == TextsUpTo(ReplySymbols, MaxReplyLen)

\* rawContent.match(/\{.*\}/s)
JsonObjectPattern == <<In({"{"}), Star(<<NotIn({})>>), In({"}"})>>
JsonMatch(rawContent) == Search(JsonObjectPattern, rawContent, 1)

\* JSON.parse of a matched span: it starts and ends with a brace, and parses
\* when the braces hold nothing or one run of members.
ParsesAsObject(span) == span \in {<<"{", "}">>, <<"{", "m", "}">>}

\* What the axios.post of analyzeVideo can come back with.
AnalyzerResponses ==
  [net : {"error", "timeout", "noChoices"}, text : {<<>>}]
    \cup [net : {"ok"}, text : Replies]

\* analyzeVideo: "ok" when it returns analysisData, else the reason it throws.
analyzeVideo(r) ==
  IF r.net = "error" THEN "upstream"
  ELSE IF r.net = "timeout" THEN "timeout"
  ELSE IF r.net = "noChoices" THEN "badResponse"
  ELSE IF JsonMatch(r.text).at = 0 THEN "noJson"
  ELSE IF ~ParsesAsObject(Matched(r.text, JsonMatch(r.text))) THEN "badJson"
  ELSE "ok"

\* Every response paired with what analyzeVideo makes of it.
AnalyzedResponses == {[resp |-> r, out |-> analyzeVideo(r)] : r \in AnalyzerResponses}

\* updateVideoAnalysis: the update answers with a row, an error or no row.
UpdateAnswers == {"row", "error", "norow"}
updateVideoAnalysis(answer) == IF answer = "row" THEN "ok" ELSE "updateFail"

\* The try block of the loop body: analyzeVideo, then updateVideoAnalysis.
AnalyzeOutcome(analysis, answer) ==
  IF analysis # "ok" THEN analysis ELSE updateVideoAnalysis(answer)

\* The call of the loop body an outcome was thrown by.
ThrownBy(out) ==
  IF out = "ok" THEN "ok"
  ELSE IF out = "updateFail" THEN "updateVideoAnalysis" ELSE "analyzeVideo"

\* The for-of loop: catch (error) logs and the loop takes the next video.
NextVideoAbort(out, i) == IF out = "ok" THEN i + 1 ELSE MaxVideos + 2
NextVideo(out, i) == i + 1

AnalyzeInit ==
  /\ aFiles \in 0..MaxVideos
  /\ aVideos = -1
  /\ apc = "start"
  /\ ai = 0
  /\ aCalls = [k \in 1..aFiles |-> 0]
  /\ aLog = <<>>
  /\ analysed = {}
  /\ aLast = "none"
  /\ ScrapeOff
  /\ WorkflowOff
  /\ ReconstructOff
  /\ NormalizeOff
  /\ SummarizeOff
  /\ PersistOff
  /\ SequenceOff
  /\ MatchOff
  /\ RouteOff
  /\ PromptOff
  /\ WebhookOff
  /\ StoreOff
  /\ FallbackOff

\* getVideosForTrendQuery and the early return on an empty list; a listing
\* error is caught there and gives the empty list.
getVideosForTrendQuery ==
  /\ apc = "start"
  /\ \E listing \in {"ok", "error"} :
       LET n == IF listing = "ok" THEN aFiles ELSE 0
       IN /\ aVideos' = n
          /\ IF n = 0 THEN apc' = "done" /\ ai' = 0
                      ELSE apc' = "loop" /\ ai' = 1
  /\ UNCHANGED <<aFiles, aCalls, aLog, analysed, aLast>>
  /\ UNCHANGED notAnalyze

\* One pass through the loop body.
AnalyzeOneVideo ==
  /\ apc = "loop"
  /\ ai <= aVideos
  /\ \E r \in AnalyzedResponses, answer \in UpdateAnswers :
       LET out == AnalyzeOutcome(r.out, answer)
           nxt == NextVideo(out, ai)
       IN /\ aCalls' = [aCalls EXCEPT ![ai] = @ + 1]
          /\ aLog' = Append(aLog, ThrownBy(out))
          /\ analysed' = IF out = "ok" THEN analysed \cup {ai} ELSE analysed
          /\ aLast' = out
          /\ IF nxt <= aVideos THEN apc' = "loop" /\ ai' = nxt
                               ELSE apc' = "done" /\ ai' = nxt
  /\ UNCHANGED <<aFiles, aVideos>>
  /\ UNCHANGED notAnalyze

AnalyzeNext == getVideosForTrendQuery \/ AnalyzeOneVideo

SpecAnalyze == AnalyzeInit /\ [][AnalyzeNext]_vars

\* C4: the analyzer is called once for every video of the batch, a failure of
\* one video (no JSON object, unparsable JSON, upstream error, timeout, failed
\* update) ends neither the loop nor the run, and the videos that carry an
\* analysis are exactly those of the batch whose analysis and update
\* succeeded: a subset of the staged videos.
C4_PerVideoFailureIsolated ==
  /\ apc \in {"start", "loop", "done"}
  /\ apc # "start" =>
       /\ Len(aLog) = (IF apc = "done" THEN aVideos ELSE ai - 1)
       /\ \A k \in 1..aFiles :
            aCalls[k] = (IF k <= Len(aLog) THEN 1 ELSE 0)
       /\ analysed = {k \in 1..Len(aLog) : aLog[k] = "ok"}
       /\ analysed \subseteq 1..aVideos

\* C4 witness: a finished batch of three where analyzeVideo threw for the
\* first video, the second was analysed and the update of the third failed.
C4_Witness ==
  /\ apc = "done"
  /\ aVideos = 3
  /\ aLog = <<"analyzeVideo", "ok", "updateVideoAnalysis">>
  /\ analysed = {2}

(***************************************************************************)
(* The workflow.  The orchestrator behind POST /api/complete-workflow is    *)
(* modelled from section 4.6 of the specification; the page that starts it  *)
(* and follows its progress is src/unnamed/part_000.                        *)
(***************************************************************************)
\* The number of query terms stage 1 asks for.
QueryCount == 5
\* parseInt(videosPerQuery) || 2
DefaultVPQ == 2

StageOrder ==
  <<"QUERIES_GENERATED", "VIDEOS_SCRAPED", "VIDEOS_ANALYZED", "STRATEGY_BUILT">>
Terminal == {"STRATEGY_BUILT", "FAILED"}

\* The stage the orchestrator runs once `done` stages are completed.
StageToRunSkipping(done) == IF done = 1 THEN 3 ELSE done + 1
StageToRun(done) == done + 1

\* The sizes stage k can produce, given what the earlier stages produced.
StageSizes(k, sizes, vpq) ==
  IF k = 1 THEN {0, QueryCount}
  ELSE IF k = 2 THEN 0..(vpq * sizes[1])
  ELSE IF k = 3 THEN 0..sizes[Len(sizes)]
  ELSE {1}

WorkflowInit ==
  /\ wStage = "START"
  /\ wRunning = 0
  /\ wLog = <<>>
  /\ wVpq = 0
  /\ wSizes = <<>>
  /\ events = <<>>
  /\ cOpen \in BOOLEAN
  /\ cPhase = "idle"
  /\ cCompleted = {}
  /\ cActive = {}
  /\ cFailed = 0
  /\ ScrapeOff
  /\ AnalyzeOff
  /\ ReconstructOff
  /\ NormalizeOff
  /\ SummarizeOff
  /\ PersistOff
  /\ SequenceOff
  /\ MatchOff
  /\ RouteOff
  /\ PromptOff
  /\ WebhookOff
  /\ StoreOff
  /\ FallbackOff

\* The click handler of startBtn up to the fetch: the progress steps are
\* reset, step 1 becomes active and the request is sent.
ClickStart ==
  /\ cPhase = "idle"
  /\ \E field \in 0..MaxVPQ :
       wVpq' = IF field = 0 THEN DefaultVPQ ELSE field
  /\ cPhase' = "waiting"
  /\ cCompleted' = {}
  /\ cActive' = {1}
  /\ UNCHANGED <<wStage, wRunning, wLog, wSizes, events, cOpen, cFailed>>
  /\ UNCHANGED notWorkflow

\* The orchestrator starts its next stage.
StartStage ==
  /\ cPhase = "waiting"
  /\ wRunning = 0
  /\ wStage \notin Terminal
  /\ wRunning' = StageToRun(Len(wLog))
  /\ UNCHANGED <<wStage, wLog, wVpq, wSizes, events, cOpen, cPhase, cCompleted,
                 cActive, cFailed>>
  /\ UNCHANGED notWorkflow

\* The stage in progress ends: with an unrecovered error or nothing to hand
\* on the run fails, else the stage is completed and may report progress.
CompleteStage ==
  /\ wRunning # 0
  /\ \E failed \in BOOLEAN, n \in StageSizes(wRunning, wSizes, wVpq),
        emit \in BOOLEAN :
       IF failed \/ n = 0
         THEN /\ wStage' = "FAILED"
              /\ wLog' = Append(wLog, "FAILED")
              /\ UNCHANGED <<wSizes, events>>
         ELSE /\ wStage' = StageOrder[wRunning]
              /\ wLog' = Append(wLog, StageOrder[wRunning])
              /\ wSizes' = Append(wSizes, n)
              /\ events' = IF emit
                             THEN Append(events, [step |-> wRunning, size |-> n])
                             ELSE events
  /\ wRunning' = 0
  /\ UNCHANGED <<wVpq, cOpen, cPhase, cCompleted, cActive, cFailed>>
  /\ UNCHANGED notWorkflow

\* eventSource.onmessage of setupSSE.
OnMessage ==
  /\ cOpen
  /\ events # <<>>
  /\ LET data == Head(events)
     IN /\ cCompleted' = cCompleted \cup {data.step}
        /\ cActive' = IF data.step < 4 THEN cActive \cup {data.step + 1}
                                       ELSE cActive
        /\ cOpen' = (data.step # 4)
  /\ events' = Tail(events)
  /\ UNCHANGED <<wStage, wRunning, wLog, wVpq, wSizes, cPhase, cFailed>>
  /\ UNCHANGED notWorkflow

\* eventSource.onerror of setupSSE.
OnError ==
  /\ cOpen
  /\ cOpen' = FALSE
  /\ UNCHANGED <<wStage, wRunning, wLog, wVpq, wSizes, events, cPhase,
                 cCompleted, cActive, cFailed>>
  /\ UNCHANGED notWorkflow

\* The click handler after the fetch: a success response completes every
\* step, any other marks the first active step red.
OnResponse ==
  /\ cPhase = "waiting"
  /\ wStage \in Terminal
  /\ IF wStage = "STRATEGY_BUILT"
       THEN /\ cPhase' = "success"
            /\ cCompleted' = 1..4
            /\ cActive' = {}
            /\ cFailed' = cFailed
       ELSE /\ cPhase' = "error"
            /\ cFailed' = CHOOSE k \in cActive : \A j \in cActive : k <= j
            /\ UNCHANGED <<cCompleted, cActive>>
  /\ UNCHANGED <<wStage, wRunning, wLog, wVpq, wSizes, events, cOpen>>
  /\ UNCHANGED notWorkflow

WorkflowNext ==
  ClickStart \/ StartStage \/ CompleteStage \/ OnMessage \/ OnError \/ OnResponse

SpecWorkflow == WorkflowInit /\ [][WorkflowNext]_vars

\* C5: the stages are completed in the order QUERIES_GENERATED,
\* VIDEOS_SCRAPED, VIDEOS_ANALYZED, STRATEGY_BUILT: the log of completed
\* stages is a prefix of that order, ended by at most one failure; a stage
\* runs only when exactly the stages before it are completed; and a step the
\* page shows as completed while waiting is a stage the orchestrator
\* completed.
C5_StagesInOrder ==
  /\ Len(wLog) <= 4
  /\ \A j \in 1..Len(wLog) :
       wLog[j] = StageOrder[j] \/ (j = Len(wLog) /\ wLog[j] = "FAILED")
  /\ wStage = (IF wLog = <<>> THEN "START" ELSE wLog[Len(wLog)])
  /\ wRunning # 0 =>
       /\ wRunning = Len(wLog) + 1
       /\ wStage \notin Terminal
  /\ cPhase = "waiting" =>
       \A k \in cCompleted : k <= Len(wLog) /\ wLog[k] = StageOrder[k]

\* C5 witness: a run that completed all four stages, with the page having
\* followed the third.
C5_Witness ==
  /\ wLog = StageOrder
  /\ wStage = "STRATEGY_BUILT"
  /\ cPhase = "waiting"
  /\ 3 \in cCompleted
  /\ 4 \in cActive

(***************************************************************************)
(* reconstructVideos: three revisions.                                      *)
(*   "headings"   src/unnamed/part_003:147 (plain text under seven section  *)
(*                headings, one regular expression per heading)             *)
(*   "jsonMatch"  src/unnamed/part_005:92 (a {...} span of the text, parsed) *)
(*   "jsonParse"  src/src/services/openrouterService.js:115 (the whole text *)
(*                parsed)                                                   *)
(***************************************************************************)
ReconstructVersions == {"headings", "jsonMatch", "jsonParse"}

\* Symbols of a strategy text: the seven section headings (a colon after one
\* belongs to it), "b" for other text without white space around it, "nl"
\* for a line break, the two braces, "m" for a well-formed run of members
\* and "num" for a number literal.
Headings == <<"H1", "H2", "H3", "H4", "H5", "H6", "H7">>
StrategySymbols ==
  {Headings[k] : k \in 1..7} \cup {"b", "nl", "{", "}", "m", "num"}
\* The bodies written under a heading, and the texts that hold the seven
\* headings in order, each followed by one of these bodies.
SectionBodies == {<<"b">>, <<"nl", "b", "nl">>, <<"b", "nl", "b">>}
HeadedTexts ==
  {<<"H1">> \o bd[1] \o <<"H2">> \o bd[2] \o <<"H3">> \o bd[3] \o <<"H4">> \o bd[4]
     \o <<"H5">> \o bd[5] \o <<"H6">> \o bd[6] \o <<"H7">> \o bd[7] :
     bd \in [1..7 -> SectionBodies]}
StrategyTexts == TextsUpTo(StrategySymbols, MaxStrategyLen) \cup HeadedTexts

\* The batch sizes reconstructVideos is called with.
BatchSizes == {0, 2}

\* /Heading k:?([\s\S]*?)(?:Heading k+1:?|$)/i
SectionPattern(k) ==
  <<In({Headings[k]}), LazyStar(<<NotIn({})>>)>>
    \o (IF k < 7 THEN <<Alt(<<In({Headings[k + 1]})>>, <<EndOfText>>)>>
                 ELSE <<EndOfText>>)

\* A capture that runs from the heading to the end of the text.
SectionCaptureToEnd(content, k) ==
  LET mt == Search(SectionPattern(k), content, 1)
  IN IF mt.at = 0 THEN <<>> ELSE SubSeq(content, mt.at + 1, Len(content))

\* match[1] of the pattern of heading k; <<>> also when there is no match.
SectionCapture(content, k) ==
  LET mt == Search(SectionPattern(k), content, 1)
  IN IF mt.at = 0 THEN <<>>
     ELSE IF k < 7 /\ mt.end - 1 > mt.at /\ content[mt.end - 1] = Headings[k + 1]
       THEN SubSeq(content, mt.at + 1, mt.end - 2)
       ELSE SubSeq(content, mt.at + 1, mt.end - 1)

\* String.prototype.trim
RECURSIVE TrimEnd(_)
TrimEnd(t) ==
  IF t # <<>> /\ t[Len(t)] = "nl" THEN TrimEnd(SubSeq(t, 1, Len(t) - 1)) ELSE t
RECURSIVE TrimStart(_)
TrimStart(t) == IF t # <<>> /\ Head(t) = "nl" THEN TrimStart(Tail(t)) ELSE t
Trim(t) == TrimEnd(TrimStart(t))

\* split(/\n/), the list marker stripped (no symbol is one), trimmed, the
\* empty lines dropped.
RECURSIVE SplitLines(_, _)
SplitLines(t, line) ==
  IF t = <<>> THEN (IF line = <<>> THEN <<>> ELSE <<line>>)
  ELSE IF Head(t) = "nl"
    THEN (IF line = <<>> THEN <<>> ELSE <<line>>) \o SplitLines(Tail(t), <<>>)
    ELSE SplitLines(Tail(t), Append(line, Head(t)))

\* if (!strategy.observations && !strategy.keyTakeaways && !strategy.sampleScript)
\*   strategy.observations = content
FallbackNone(parsed, content) == parsed
Fallback(parsed, content) ==
  IF parsed.observations = <<>> /\ parsed.keyTakeaways = <<>>
       /\ parsed.sampleScript = <<>>
    THEN [parsed EXCEPT !.observations = content]
    ELSE parsed

\* The strategy object of the "headings" revision.
SectionStrategy(content) ==
  LET parsed ==
        [observations |-> Trim(SectionCapture(content, 1)),
         keyTakeaways |-> Trim(SectionCapture(content, 2)),
         sampleScript |-> Trim(SectionCapture(content, 3)),
         technicalSpecifications |-> Trim(SectionCapture(content, 4)),
         contentThemes |-> SplitLines(SectionCapture(content, 5), <<>>),
         hashtagStrategy |-> Trim(SectionCapture(content, 6)),
         postingFrequency |-> Trim(SectionCapture(content, 7)),
         rawContent |-> content]
  IN Fallback(parsed, content)

\* JSON.parse of a strategy text: white space, an object, white space.
ParsesAsStrategy(t) == ParsesAsObject(Trim(t))
\* JSON.parse of a strategy text that yields a number, which is no object.
ParsesAsNumber(t) == Trim(t) = <<"num">>

\* content.match(/\{[\s\S]*\}/)
BraceSpan(content) == Search(JsonObjectPattern, content, 1)

\* The strategy of the two JSON revisions: the parsed value (written as the
\* text it was parsed from), or the fallback object.
JsonStrategy(version, content) ==
  IF version = "jsonParse"
    THEN IF ParsesAsStrategy(content) \/ ParsesAsNumber(content)
           THEN [parsedFrom |-> Trim(content)]
           ELSE [rawStrategy |-> content]
    ELSE IF BraceSpan(content).at # 0
              /\ ParsesAsStrategy(Matched(content, BraceSpan(content)))
           THEN [parsedFrom |-> Matched(content, BraceSpan(content))]
           ELSE [rawStrategy |-> content,
                 strategySummary |-> <<"Could not parse JSON response">>,
                 contentThemes |-> <<>>, videoIdeas |-> <<>>,
                 hashtagStrategy |-> <<>>, postingFrequency |-> <<>>]

BuildStrategy(version, content) ==
  IF version = "headings" THEN SectionStrategy(content)
                          ELSE JsonStrategy(version, content)

\* Every text paired with the strategy each revision builds from it.
BuiltStrategies ==
  {[version |-> v, content |-> t, built |-> BuildStrategy(v, t)] :
     v \in ReconstructVersions, t \in StrategyTexts}

ReconstructInit ==
  /\ rVersion \in ReconstructVersions
  /\ rCount \in BatchSizes
  /\ rUserId \in BOOLEAN
  /\ rpc = "start"
  /\ rContent = <<>>
  /\ strategy = <<>>
  /\ recommendationId = 0
  /\ rSaves = <<>>
  /\ ScrapeOff
  /\ AnalyzeOff
  /\ WorkflowOff
  /\ NormalizeOff
  /\ SummarizeOff
  /\ PersistOff
  /\ SequenceOff
  /\ MatchOff
  /\ RouteOff
  /\ PromptOff
  /\ WebhookOff
  /\ StoreOff
  /\ FallbackOff

\* strategy.recommendationId = savedRecommendation.id: a property can be set
\* on an object; the files are ES modules, so on a number the assignment
\* throws a TypeError, which the catch around the save swallows.
CarriesId(built) ==
  ~(DOMAIN built = {"parsedFrom"} /\ built.parsedFrom = <<"num">>)

\* The call up to its return: the request to the text model, the strategy
\* built from the text, and one saveRecommendation when an owner id is
\* present (its failure is logged and swallowed).
reconstructVideos ==
  /\ rpc = "start"
  /\ \E b \in BuiltStrategies, saved \in {"ok", "error"} :
       /\ b.version = rVersion
       /\ rpc' = "returned"
       /\ rContent' = b.content
       /\ strategy' = b.built
       /\ rSaves' = IF rUserId THEN <<saved>> ELSE <<>>
       /\ recommendationId' =
            IF rUserId /\ saved = "ok" /\ CarriesId(b.built) THEN 1 ELSE 0
  /\ UNCHANGED <<rVersion, rCount, rUserId>>
  /\ UNCHANGED notReconstruct

\* The request to the text model fails, or its body has no choices: the outer
\* catch throws 'Failed to reconstruct marketing strategy'.
reconstructVideosThrows ==
  /\ rpc = "start"
  /\ rpc' = "threw"
  /\ UNCHANGED <<rVersion, rCount, rUserId, rContent, strategy, recommendationId,
                 rSaves>>
  /\ UNCHANGED notReconstruct

ReconstructNext == reconstructVideos \/ reconstructVideosThrows

SpecReconstruct == ReconstructInit /\ [][ReconstructNext]_vars

\* C6: a call with an empty batch is reported as a failure, so a returned
\* strategy always stems from at least one analysed video.
C6_EmptyBatchIsFailure == rpc = "returned" => rCount > 0

\* No symbol of the text is a section heading.
NoHeadings(t) == \A i \in 1..Len(t) : t[i] \notin {Headings[k] : k \in 1..7}

NormalizeVersions == {"openrouter", "part003", "part005"}

Words == <<"w1", "w2", "w3", "w4", "w5", "w6", "w7", "w8">>
WhiteSpace == {"sp", "nl"}

\* JSON.parse: [ok, next, val], val the value parsed.
NoParse == [ok |-> FALSE, next |-> 0, val |-> [kind |-> "none"]]
Parsed(next, val) == [ok |-> TRUE, next |-> next, val |-> val]
JsonString(s) == [kind |-> "string", s |-> s]
JsonArray(items) == [kind |-> "array", items |-> items]

RECURSIVE SkipWs(_, _)
SkipWs(t, i) ==
  IF i <= Len(t) /\ t[i] \in WhiteSpace THEN SkipWs(t, i + 1) ELSE i

RECURSIVE SkipDigits(_, _)
SkipDigits(t, i) == IF i <= Len(t) /\ t[i] = "1" THEN SkipDigits(t, i + 1) ELSE i

Unescape(c) == IF c = "n" THEN "nl" ELSE c

\* A string literal from behind its opening quote.
RECURSIVE ParseString(_, _, _)
ParseString(t, i, acc) ==
  IF i > Len(t) THEN NoParse
  ELSE IF t[i] = "q" THEN Parsed(i + 1, JsonString(acc))
  ELSE IF t[i] = "nl" THEN NoParse
  ELSE IF t[i] = "bs"
    THEN IF i + 1 <= Len(t) /\ t[i + 1] \in {"q", "bs", "n"}
           THEN ParseString(t, i + 2, Append(acc, Unescape(t[i + 1])))
           ELSE NoParse
    ELSE ParseString(t, i + 1, Append(acc, t[i]))

RECURSIVE ParseValue(_, _)
RECURSIVE ParseElements(_, _, _)
ParseValue(t, i) ==
  IF i > Len(t) THEN NoParse
  ELSE IF t[i] = "q" THEN ParseString(t, i + 1, <<>>)
  ELSE IF t[i] = "["
    THEN LET j == SkipWs(t, i + 1)
         IN IF j <= Len(t) /\ t[j] = "]" THEN Parsed(j + 1, JsonArray(<<>>))
            ELSE ParseElements(t, j, <<>>)
  ELSE IF t[i] = "{"
    THEN LET j == SkipWs(t, i + 1)
         IN IF j <= Len(t) /\ t[j] = "}" THEN Parsed(j + 1, [kind |-> "object"])
            ELSE NoParse
  ELSE IF t[i] = "1"
    THEN LET j == SkipDigits(t, i)
         IN IF j <= Len(t) /\ t[j] = "."
              THEN IF SkipDigits(t, j + 1) > j + 1
                     THEN Parsed(SkipDigits(t, j + 1), [kind |-> "number"])
                     ELSE NoParse
              ELSE Parsed(j, [kind |-> "number"])
  ELSE NoParse
ParseElements(t, i, acc) ==
  LET v == ParseValue(t, i)
      j == SkipWs(t, v.next)
  IN IF ~v.ok \/ j > Len(t) THEN NoParse
     ELSE IF t[j] = "]" THEN Parsed(j + 1, JsonArray(Append(acc, v.val)))
     ELSE IF t[j] = "," THEN ParseElements(t, SkipWs(t, j + 1), Append(acc, v.val))
     ELSE NoParse

JsonParse(t) ==
  LET v == ParseValue(t, SkipWs(t, 1))
  IN IF v.ok /\ SkipWs(t, v.next) = Len(t) + 1 THEN v ELSE NoParse

\* Array.isArray(v) && v.length === n
IsArrayOf(v, n) == v.kind = "array" /\ Len(v.items) = n

\* String helpers on character sequences.
RECURSIVE StripStart(_, _)
StripStart(t, set) ==
  IF t # <<>> /\ Head(t) \in set THEN StripStart(Tail(t), set) ELSE t
RECURSIVE StripEnd(_, _)
StripEnd(t, set) ==
  IF t # <<>> /\ t[Len(t)] \in set
    THEN StripEnd(SubSeq(t, 1, Len(t) - 1), set) ELSE t
TrimWs(t) == StripEnd(StripStart(t, WhiteSpace), WhiteSpace)

Without(t, set) == SelectSeq(t, LAMBDA c : c \notin set)

StartsWith(t, p) == Len(t) >= Len(p) /\ SubSeq(t, 1, Len(p)) = p
EndsWith(t, p) == Len(t) >= Len(p) /\ SubSeq(t, Len(t) - Len(p) + 1, Len(t)) = p

\* String.prototype.split with a non-empty separator.
RECURSIVE SplitOn(_, _, _)
SplitOn(t, sep, piece) ==
  IF t = <<>> THEN <<piece>>
  ELSE IF StartsWith(t, sep)
    THEN <<piece>> \o SplitOn(SubSeq(t, Len(sep) + 1, Len(t)), sep, <<>>)
    ELSE SplitOn(Tail(t), sep, Append(piece, Head(t)))

\* String.prototype.match with a global pattern whose matches are not empty.
RECURSIVE AllMatches(_, _, _)
AllMatches(re, t, from) ==
  LET mt == Search(re, t, from)
  IN IF mt.at = 0 THEN <<>>
     ELSE <<Matched(t, mt)>> \o AllMatches(re, t, mt.end)

\* Array.prototype.map and Array.prototype.slice(0, n)
MapSeq(sq, Op(_)) == [j \in 1..Len(sq) |-> Op(sq[j])]
FirstN(sq, n) == SubSeq(sq, 1, Min(n, Len(sq)))

\* The replies the model runs on: an opening, up to MaxItems items of one
\* kind joined by one separator, a closing; and the empty object.
ItemKinds == {"quoted", "bare", "numbered"}
Item(kind, j) ==
  IF kind = "quoted" THEN <<"q", Words[j], "q">>
  ELSE IF kind = "bare" THEN <<Words[j]>>
  ELSE <<"1", ".", "sp", Words[j]>>
Separators == {<<",">>, <<",", "sp">>, <<"nl">>, <<"bs", "n">>, <<"sp">>}
Openings ==
  {<<>>, <<"[">>, <<"w0", "sp">>, <<"w0", "sp", "[">>, <<"fence", "json", "nl", "[">>}
Closings ==
  {<<>>, <<"]">>, <<"q">>, <<"]", "nl", "fence">>, <<"]", "sp", "w0">>}

RECURSIVE Joined(_, _, _)
Joined(kind, sep, k) ==
  IF k = 0 THEN <<>>
  ELSE IF k = 1 THEN Item(kind, 1)
  ELSE Joined(kind, sep, k - 1) \o sep \o Item(kind, k)

ReplyTexts ==
  {o \o Joined(kind, sep, k) \o c :
     o \in Openings, kind \in ItemKinds, sep \in Separators, k \in 0..MaxItems,
     c \in Closings}
  \cup {<<"{", "}">>}

\* The value `trending ${businessDescription} tiktok` in a list.
DefaultQueries == JsonArray(<<JsonString(<<"trending", "businessDescription", "tiktok">>)>>)

\* In the patterns quoted below Q is written for the quote character(s).
Quote == In({"q"})
AnyWs == Star(<<In(WhiteSpace)>>)
\* /\[\s*(Q.*?Q(\s*,\s*Q.*?Q)*)\s*\]/s
OpenrouterArrayPattern ==
  <<In({"["}), AnyWs, Quote, LazyStar(<<NotIn({})>>), Quote,
    Star(<<AnyWs, In({","}), AnyWs, Quote, LazyStar(<<NotIn({})>>), Quote>>),
    AnyWs, In({"]"})>>
\* /\\[\\s*\\Q[^\\Q]*\\Q(?:\\s*,\\s*\\Q[^\\Q]*\\Q)*\\s*\\]/ : a backslash, then
\* the class [\\s*\\"[^\\"] starred, then a backslash and a quote, ...
Part003ArrayPattern ==
  <<In({"bs"}), Star(<<In({"bs", "s", "*", "q", "[", "^"})>>), In({"bs"}), Quote,
    Star(<<In({"bs"}), Star(<<In({"s"})>>), In({","}), In({"bs"}),
           Star(<<In({"s"})>>), In({"bs"}), Quote, Star(<<NotIn({"bs", "q"})>>),
           In({"bs"}), Quote>>),
    In({"bs"}), Star(<<In({"s"})>>), In({"bs"}), In({"]"})>>
\* /\[Q([^Q]+)Q(?:,\s*Q([^Q]+)Q)*\]/
Part005ArrayPattern ==
  <<In({"["}), Quote, NotIn({"q"}), Star(<<NotIn({"q"})>>), Quote,
    Star(<<In({","}), AnyWs, Quote, NotIn({"q"}), Star(<<NotIn({"q"})>>), Quote>>),
    In({"]"})>>
\* /Q([^Q]+)Q/g and /Q([^Q]+)Q/g
QuotedPattern == <<Quote, NotIn({"q"}), Star(<<NotIn({"q"})>>), Quote>>
\* /^[-*(bullet)\\d.]\\s*/ : one of - * (bullet) \ d . , then a backslash, then letters s
Part003MarkerPattern ==
  <<In({"-", "*", "bullet", "bs", "d", "."}), In({"bs"}), Star(<<In({"s"})>>)>>

\* JSON.parse(match[0]) of an array pattern; no parse when there is no match.
ParseMatch(re, content) ==
  LET mt == Search(re, content, 1)
  IN IF mt.at = 0 THEN NoParse ELSE JsonParse(Matched(content, mt))

Strings(sq) == JsonArray(MapSeq(sq, JsonString))
NonEmpty(sq) == SelectSeq(sq, LAMBDA x : x # <<>>)

\* openrouterService.js: str.replace(/^Q|Q$/g, '').trim()
Unquote(str) ==
  LET a == IF str # <<>> /\ Head(str) = "q" THEN Tail(str) ELSE str
      b == IF a # <<>> /\ a[Len(a)] = "q" THEN SubSeq(a, 1, Len(a) - 1) ELSE a
  IN TrimWs(b)
OpenrouterQuoted(content) ==
  NonEmpty(MapSeq(AllMatches(QuotedPattern, content, 1), Unquote))

\* openrouterService.js: line.replace(/^[Q'\d\.\s-]*|[Q'\s]*$/g, '').trim()
CleanLine(line) ==
  TrimWs(StripEnd(StripStart(line, {"q", "1", ".", "sp", "nl", "-"}),
                  {"q", "sp", "nl"}))
OpenrouterLines(content) ==
  SelectSeq(
    MapSeq(SelectSeq(SplitOn(content, <<"nl">>, <<>>), LAMBDA l : TrimWs(l) # <<>>),
           CleanLine),
    LAMBDA l : ~StartsWith(l, <<"fence">>) /\ ~EndsWith(l, <<"fence">>) /\ l # <<>>)

\* part_003: q.replace(/Q/g, '').trim()
DropQuotes(str) == TrimWs(Without(str, {"q"}))
Part003Quoted(content) ==
  NonEmpty(MapSeq(AllMatches(QuotedPattern, content, 1), DropQuotes))

\* part_003: content.split('\\n'), the marker pattern replaced, trimmed, filtered
StripMarker(line) ==
  IF MatchFrom(Part003MarkerPattern, line, 1) = -1 THEN TrimWs(line)
  ELSE TrimWs(SubSeq(line, MatchFrom(Part003MarkerPattern, line, 1), Len(line)))
Part003Lines(content) ==
  SelectSeq(MapSeq(SplitOn(content, <<"bs", "n">>, <<>>), StripMarker),
            LAMBDA l : /\ l # <<>>
                       /\ \A i \in 1..Len(l) : l[i] # "json"
                       /\ Head(l) # "["
                       /\ l[Len(l)] # "]")

Returned(val, tried) == [val |-> val, tried |-> tried, by |-> tried[Len(tried)]]

\* src/src/services/openrouterService.js:52-93
NormalizeOpenrouter(content) ==
  IF JsonParse(content).ok
    THEN Returned(JsonParse(content).val, <<"direct">>)
  ELSE IF ParseMatch(OpenrouterArrayPattern, content).ok
    THEN Returned(ParseMatch(OpenrouterArrayPattern, content).val,
                  <<"direct", "bracket">>)
  ELSE IF AllMatches(QuotedPattern, content, 1) # <<>>
    THEN Returned(Strings(FirstN(OpenrouterQuoted(content), QueryCount)),
                  <<"direct", "bracket", "quoted">>)
  ELSE Returned(Strings(FirstN(OpenrouterLines(content), QueryCount)),
                <<"direct", "bracket", "quoted", "lines">>)

\* src/unnamed/part_003:65-128
NormalizePart003(content) ==
  IF ParseMatch(Part003ArrayPattern, content).ok
       /\ IsArrayOf(ParseMatch(Part003ArrayPattern, content).val, QueryCount)
    THEN Returned(ParseMatch(Part003ArrayPattern, content).val, <<"bracket">>)
  ELSE IF JsonParse(content).ok /\ IsArrayOf(JsonParse(content).val, QueryCount)
    THEN Returned(JsonParse(content).val, <<"bracket", "direct">>)
  ELSE IF Len(Part003Quoted(content)) >= QueryCount
    THEN Returned(Strings(FirstN(Part003Quoted(content), QueryCount)),
                  <<"bracket", "direct", "quoted">>)
  ELSE IF Len(Part003Lines(content)) >= QueryCount
    THEN Returned(Strings(FirstN(Part003Lines(content), QueryCount)),
                  <<"bracket", "direct", "quoted", "lines">>)
  ELSE Returned(DefaultQueries,
                <<"bracket", "direct", "quoted", "lines", "default">>)

\* src/unnamed/part_005:59-77
NormalizePart005(content) ==
  IF JsonParse(content).ok
    THEN Returned(JsonParse(content).val, <<"direct">>)
  ELSE IF ParseMatch(Part005ArrayPattern, content).ok
    THEN Returned(ParseMatch(Part005ArrayPattern, content).val,
                  <<"direct", "bracket">>)
  ELSE Returned(DefaultQueries, <<"direct", "bracket", "default">>)

Normalize(version, content) ==
  IF version = "openrouter" THEN NormalizeOpenrouter(content)
  ELSE IF version = "part003" THEN NormalizePart003(content)
  ELSE NormalizePart005(content)

\* Every reply paired with what each revision returns for it.
NormalizedReplies ==
  {[version |-> v, content |-> t, out |-> Normalize(v, t)] :
     v \in NormalizeVersions, t \in ReplyTexts}

NormalizeInit ==
  /\ nVersion \in NormalizeVersions
  /\ npc = "start"
  /\ nContent = <<>>
  /\ nResult = [kind |-> "none"]
  /\ nTried = <<>>
  /\ nBy = "none"
  /\ ScrapeOff
  /\ AnalyzeOff
  /\ WorkflowOff
  /\ ReconstructOff
  /\ SummarizeOff
  /\ PersistOff
  /\ SequenceOff
  /\ MatchOff
  /\ RouteOff
  /\ PromptOff
  /\ WebhookOff
  /\ StoreOff
  /\ FallbackOff

\* The call from the arrival of the model's text to its return.
generateSearchQueries ==
  /\ npc = "start"
  /\ \E r \in NormalizedReplies :
       /\ r.version = nVersion
       /\ npc' = "returned"
       /\ nContent' = r.content
       /\ nResult' = r.out.val
       /\ nTried' = r.out.tried
       /\ nBy' = r.out.by
  /\ UNCHANGED nVersion
  /\ UNCHANGED notNormalize

\* The request to the text model fails, or its body has no choices: the outer
\* catch throws 'Failed to generate search queries'.
generateSearchQueriesThrows ==
  /\ npc = "start"
  /\ npc' = "threw"
  /\ UNCHANGED <<nVersion, nContent, nResult, nTried, nBy>>
  /\ UNCHANGED notNormalize

NormalizeNext == generateSearchQueries \/ generateSearchQueriesThrows

SpecNormalize == NormalizeInit /\ [][NormalizeNext]_vars

\* The candidates a reply offers: its quoted string literals, and its lines
\* (split at line breaks) that hold a word.
QuotedCandidates(content) == Len(AllMatches(QuotedPattern, content, 1))
LineCandidates(content) ==
  Len(SelectSeq(SplitOn(content, <<"nl">>, <<>>),
                LAMBDA l : \E i \in 1..Len(l), j \in 1..Len(Words) : l[i] = Words[j]))
AllStrings(v) ==
  v.kind = "array" /\ \A i \in 1..Len(v.items) : v.items[i].kind = "string"

\* C7: for a reply that does not parse as JSON, the call returns exactly
\* QueryCount terms whenever the reply holds at least QueryCount quoted
\* strings or at least QueryCount lines, and it returns the single default
\* query only when the reply holds fewer than QueryCount of both.
C7_FiveTermsOrDefault ==
  (npc = "returned" /\ ~JsonParse(nContent).ok) =>
    /\ (QuotedCandidates(nContent) >= QueryCount
          \/ LineCandidates(nContent) >= QueryCount)
         => (IsArrayOf(nResult, QueryCount) /\ AllStrings(nResult))
    /\ nResult = DefaultQueries
         => (QuotedCandidates(nContent) < QueryCount
               /\ LineCandidates(nContent) < QueryCount)

\* C8: the strategies a call has tried are an initial part of the order
\* direct, bracket, quoted, lines, default, and the value returned is that of
\* the last one tried, the first to succeed.
C8_FixedOrder ==
  LET order == <<"direct", "bracket", "quoted", "lines", "default">>
  IN npc = "returned" =>
       /\ Len(nTried) <= Len(order)
       /\ nTried = SubSeq(order, 1, Len(nTried))
       /\ nBy = nTried[Len(nTried)]

\* C9: whatever text the model answered, the call returns a non-empty list of
\* query terms.
C9_UsableNonEmptyList ==
  npc = "returned" =>
    /\ AllStrings(nResult)
    /\ Len(nResult.items) > 0

\* The place of heading k in a text that holds it, and the body written
\* under it: the symbols up to the next heading, or to the end of the text.
HeadingPos(t, k) == CHOOSE i \in 1..Len(t) : t[i] = Headings[k]
SectionBody(t, k) ==
  SubSeq(t, HeadingPos(t, k) + 1,
         IF k < 7 THEN HeadingPos(t, k + 1) - 1 ELSE Len(t))
\* The text holds each heading once, in order, from its first symbol on, and
\* some text other than line breaks under each.
IsHeadedText(t) ==
  /\ \A k \in 1..7 : Cardinality({i \in 1..Len(t) : t[i] = Headings[k]}) = 1
  /\ HeadingPos(t, 1) = 1
  /\ \A k \in 1..6 : HeadingPos(t, k) < HeadingPos(t, k + 1)
  /\ \A k \in 1..7 : \E i \in 1..Len(SectionBody(t, k)) : SectionBody(t, k)[i] = "b"

C12_PersistOnceAndSwallow ==
  /\ rpc = "returned" =>
       /\ Len(rSaves) = (IF rUserId THEN 1 ELSE 0)
       /\ rSaves = <<"ok">> => recommendationId # 0
       /\ rSaves # <<"ok">> => recommendationId = 0
       /\ strategy = BuildStrategy(rVersion, rContent)
  /\ rpc = "threw" => rSaves = <<>>

(***************************************************************************)
(* summarizeTrends: two revisions.                                          *)
(*   "openrouter"  src/src/services/openrouterService.js:206                *)
(*   "part004"     src/unnamed/part_004:718                                 *)
(* Both parse the whole text of the model with JSON.parse.                  *)
(***************************************************************************)
SummarizeVersions == {"openrouter", "part004"}

\* Symbols of a summary text: the two braces, "m" for a well-formed run of
\* members, "num" for a number literal, "b" for other text, "nl" for a line
\* break.
SummarySymbols == {"{", "}", "m", "num", "b", "nl"}
SummaryTexts == TextsUpTo(SummarySymbols, MaxStrategyLen)

\* JSON.parse(content) succeeds: the text is an object or a number between
\* white space.
ParsesAsSummary(content) == ParsesAsStrategy(content) \/ ParsesAsNumber(content)

\* What the catch around JSON.parse does with a text that does not parse:
\* openrouterService.js returns { rawSummary: content }, part_004 throws
\* 'Failed to parse trend summary from AI response.', which the outer catch
\* turns into 'Failed to summarize trends'.
OnParseError(version) == IF version = "openrouter" THEN "return" ELSE "throw"

SummarizeInit ==
  /\ mVersion \in SummarizeVersions
  /\ mUserId \in BOOLEAN
  /\ mpc = "start"
  /\ mReceived = FALSE
  /\ mContent = <<>>
  /\ summary = <<>>
  /\ mSaves = <<>>
  /\ ScrapeOff
  /\ AnalyzeOff
  /\ WorkflowOff
  /\ ReconstructOff
  /\ NormalizeOff
  /\ PersistOff
  /\ SequenceOff
  /\ MatchOff
  /\ RouteOff
  /\ PromptOff
  /\ WebhookOff
  /\ StoreOff
  /\ FallbackOff

\* The text parses: one saveRecommendation when an owner id is present (its
\* failure is logged and swallowed), and the parsed value is returned, with
\* the id of the saved row when it is an object.
summarizeTrendsParsed ==
  /\ mpc = "start"
  /\ \E t \in SummaryTexts, saved \in {"ok", "error"} :
       /\ ParsesAsSummary(t)
       /\ mContent' = t
       /\ mSaves' = IF mUserId THEN <<saved>> ELSE <<>>
       /\ summary' =
            IF mUserId /\ saved = "ok" /\ ~ParsesAsNumber(t)
              THEN [parsedFrom |-> Trim(t), recommendationId |-> 1]
              ELSE [parsedFrom |-> Trim(t)]
  /\ mpc' = "returned"
  /\ mReceived' = TRUE
  /\ UNCHANGED <<mVersion, mUserId>>
  /\ UNCHANGED notSummarize

\* The text does not parse: nothing is saved.
summarizeTrendsUnparsed ==
  /\ mpc = "start"
  /\ \E t \in SummaryTexts :
       /\ ~ParsesAsSummary(t)
       /\ mContent' = t
       /\ IF OnParseError(mVersion) = "return"
            THEN mpc' = "returned" /\ summary' = [rawSummary |-> t]
            ELSE mpc' = "threw" /\ summary' = summary
  /\ mReceived' = TRUE
  /\ UNCHANGED <<mVersion, mUserId, mSaves>>
  /\ UNCHANGED notSummarize

\* The request to the text model fails, or its body has no choices: the outer
\* catch throws 'Failed to summarize trends'.
summarizeTrendsThrows ==
  /\ mpc = "start"
  /\ mpc' = "threw"
  /\ UNCHANGED <<mVersion, mUserId, mReceived, mContent, summary, mSaves>>
  /\ UNCHANGED notSummarize

SummarizeNext ==
  summarizeTrendsParsed \/ summarizeTrendsUnparsed \/ summarizeTrendsThrows

SpecSummarize == SummarizeInit /\ [][SummarizeNext]_vars

\* C13: once the text of the model has arrived summarizeTrends does not
\* throw, and for a text that does not parse it returns a value that carries
\* the text.
C13_MalformedTextNeverThrows ==
  mReceived =>
    /\ mpc = "returned"
    /\ ~ParsesAsSummary(mContent) =>
         \E f \in DOMAIN summary : summary[f] = mContent

(***************************************************************************)
(* saveTrendQuery, saveRecommendation, saveTikTokVideo: two revisions.      *)
(*   "supabase"  src/src/services/supabaseService.js                        *)
(*   "part002"   src/unnamed/part_002                                       *)
(* The users table is the set of the kinds of its rows, seen from the owner *)
(* id of a call: "auth" (auth_id is the owner id), "id" (the primary key is *)
(* the owner id), "other", "system" (email system@lazytrend.com), and the   *)
(* rows the functions create: "default" (auth_id is the owner id) and       *)
(* "temp".                                                                  *)
(***************************************************************************)
PersistVersions == {"supabase", "part002"}
\* An insert(...).select() answers with the row, an error, or no error and
\* no row.
InsertAnswers == {"row", "error", "norow"}
UserKinds == {"auth", "id", "other", "system"}

\* getUserProfile: by auth_id; part_002:555 then by the primary key.
getUserProfile(version, users) ==
  IF {"auth", "default"} \cap users # {}
    THEN [found |-> "auth", lookups |-> <<"auth_id">>]
  ELSE IF version = "part002"
    THEN [found |-> IF "id" \in users THEN "id" ELSE "none",
          lookups |-> <<"auth_id", "id">>]
  ELSE [found |-> "none", lookups |-> <<"auth_id">>]

\* How the owner of a write was resolved: the users row used, the lookups
\* made, whether a row for the owner was created ("none": not attempted),
\* the rows added to users, and whether the resolution threw.
Resolved(user, lookups, created, newUsers, threw) ==
  [user |-> user, lookups |-> lookups, created |-> created,
   newUsers |-> newUsers, threw |-> threw]

\* part_002: the row of system@lazytrend.com, created when it is missing.
SystemUser(users, sysCreate, lookups, created) ==
  IF "system" \in users
    THEN Resolved("system", Append(lookups, "system"), created, {}, FALSE)
  ELSE IF sysCreate = "row"
    THEN Resolved("system", Append(lookups, "system"), created, {"system"}, FALSE)
  ELSE Resolved("none", Append(lookups, "system"), created, {}, TRUE)

\* supabaseService.js:198-233: any row of users (limit 1), else a temporary
\* user.
AnyUser(users, create, lookups) ==
  IF users # {}
    THEN Resolved("any", Append(lookups, "any"), "none", {}, FALSE)
  ELSE IF create = "row"
    THEN Resolved("temp", Append(lookups, "any"), "ok", {"temp"}, FALSE)
  ELSE Resolved("none", Append(lookups, "any"), "failed", {}, TRUE)

\* The owner of a trend query.
TrendQueryOwner(version, owner, users, create, sysCreate) ==
  IF version = "supabase" THEN
    IF owner /\ getUserProfile(version, users).found = "auth"
      THEN Resolved("auth", <<"auth_id">>, "none", {}, FALSE)
      ELSE AnyUser(users, create, IF owner THEN <<"auth_id">> ELSE <<>>)
  ELSE IF ~owner THEN SystemUser(users, sysCreate, <<>>, "none")
  ELSE LET p == getUserProfile(version, users)
       IN IF p.found # "none"
            THEN Resolved(p.found, p.lookups, "none", {}, FALSE)
          ELSE IF create = "row"
            THEN Resolved("default", p.lookups, "ok", {"default"}, FALSE)
          ELSE SystemUser(users, sysCreate, p.lookups, "failed")

\* The owner of a recommendation.
RecommendationOwner(version, owner, users, create, sysCreate) ==
  IF version = "supabase" THEN
    IF owner /\ getUserProfile(version, users).found = "auth"
      THEN Resolved("auth", <<"auth_id">>, "none", {}, FALSE)
      ELSE Resolved("none", IF owner THEN <<"auth_id">> ELSE <<>>, "none", {}, TRUE)
  ELSE IF ~owner THEN SystemUser(users, sysCreate, <<>>, "none")
  ELSE LET p == getUserProfile(version, users)
       IN IF p.found # "none"
            THEN Resolved(p.found, p.lookups, "none", {}, FALSE)
          ELSE IF create = "row"
            THEN Resolved("default", p.lookups, "ok", {"default"}, FALSE)
          ELSE IF "system" \in users
            THEN Resolved("system", Append(p.lookups, "system"), "failed", {}, FALSE)
          ELSE Resolved("none", Append(p.lookups, "system"), "failed", {}, TRUE)

\* What a call comes to: what it returns ("row", "undefined") or "threw",
\* the rows it inserted, the users table after it, how the owner was
\* resolved, and the answer to its own insert ("none": not attempted).
Written(out, rows, users, res, insert) ==
  [out |-> out, rows |-> rows, users |-> users, res |-> res, insert |-> insert]

Row(table, user) == [table |-> table, user |-> user]

\* if (error) throw ...; return data[0]: with no row data[0] is undefined.
\* saveRecommendation reads data[0].id for its log line first, which throws.
ReturnOf(op, insert) ==
  IF insert = "row" THEN "row"
  ELSE IF insert = "error" THEN "threw"
  ELSE IF op = "saveRecommendation" THEN "threw"
  ELSE "undefined"

\* saveTrendQuery: supabaseService.js:179-306, part_002:193-288.
saveTrendQuery(version, owner, users, create, sysCreate, insert) ==
  LET r == TrendQueryOwner(version, owner, users, create, sysCreate)
  IN IF r.threw
       THEN Written("threw", <<>>, users \cup r.newUsers, r, "none")
       ELSE Written(ReturnOf("saveTrendQuery", insert),
                    IF insert = "error" THEN <<>>
                                        ELSE <<Row("trend_queries", r.user)>>,
                    users \cup r.newUsers, r, insert)

\* saveRecommendation: supabaseService.js:362-432, part_002:344-479.
saveRecommendation(version, owner, users, create, sysCreate, insert) ==
  LET r == RecommendationOwner(version, owner, users, create, sysCreate)
  IN IF r.threw
       THEN Written("threw", <<>>, users \cup r.newUsers, r, "none")
       ELSE Written(ReturnOf("saveRecommendation", insert),
                    IF insert = "error" THEN <<>>
                                        ELSE <<Row("recommendations", r.user)>>,
                    users \cup r.newUsers, r, insert)

\* The insert into tiktok_videos and what is returned: part_002:160 throws
\* when no row came back, supabaseService.js:153 returns data[0].
VideoReturn(version, insert) ==
  IF version = "part002" /\ insert = "norow" THEN "threw"
  ELSE ReturnOf("saveTikTokVideo", insert)

NoOwner == Resolved("none", <<>>, "none", {}, FALSE)

\* The trend_query_id of the row to insert: the one passed, the id of a
\* default trend query saved for the purpose, or none. supabaseService.js
\* saves the default whenever none is passed and throws when that yields no
\* id (lines 88-110); part_002 saves it only when videoData.userId is set and
\* goes on whatever comes of it (lines 118-138).
TrendQueryIdUnchecked(version, hasTq, owner, q) ==
  IF hasTq THEN "passed"
  ELSE IF (version = "supabase" \/ owner) /\ q.out = "row" THEN "default"
  ELSE "none"
TrendQueryIdFor(version, hasTq, owner, q) ==
  IF hasTq THEN "passed"
  ELSE IF version = "supabase" THEN (IF q.out = "row" THEN "default" ELSE "throw")
  ELSE IF owner /\ q.out = "row" THEN "default" ELSE "none"

VideoRow(tq) == [table |-> "tiktok_videos", user |-> "none", tq |-> tq]

\* saveTikTokVideo: supabaseService.js:83-158, part_002:83-172.
saveTikTokVideo(version, hasTq, owner, users, create, sysCreate, tqInsert, insert) ==
  LET q == saveTrendQuery(version, owner, users, create, sysCreate, tqInsert)
      tq == TrendQueryIdFor(version, hasTq, owner, q)
      videoRow == IF insert = "error" THEN <<>> ELSE <<VideoRow(tq)>>
  IN IF tq = "throw"
       THEN Written("threw", q.rows, q.users, q.res, "none")
     ELSE IF ~hasTq /\ (version = "supabase" \/ owner)
       THEN Written(VideoReturn(version, insert), q.rows \o videoRow, q.users, q.res,
                    insert)
     ELSE Written(VideoReturn(version, insert), videoRow, users, NoOwner, insert)

PersistInit ==
  /\ pVersion \in PersistVersions
  /\ pUsers \in SUBSET UserKinds
  /\ pRows = <<>>
  /\ pCalls = 0
  /\ pLast = [op |-> "none", owner |-> FALSE, hasTq |-> FALSE,
              w |-> Written("none", <<>>, {}, NoOwner, "none")]
  /\ ScrapeOff
  /\ AnalyzeOff
  /\ WorkflowOff
  /\ ReconstructOff
  /\ NormalizeOff
  /\ SummarizeOff
  /\ SequenceOff
  /\ MatchOff
  /\ RouteOff
  /\ PromptOff
  /\ WebhookOff
  /\ StoreOff
  /\ FallbackOff

\* The state after a call.
Called(op, owner, hasTq, w) ==
  /\ pCalls' = pCalls + 1
  /\ pUsers' = w.users
  /\ pRows' = pRows \o w.rows
  /\ pLast' = [op |-> op, owner |-> owner, hasTq |-> hasTq, w |-> w]
  /\ UNCHANGED pVersion
  /\ UNCHANGED notPersist

\* The answers of the inserts a call can make: supabaseService.js has no
\* system user, and a save with a trendQueryId saves no trend query.
SysCreateAnswers(version) == IF version = "supabase" THEN {"row"} ELSE InsertAnswers
DefaultQueryAnswers(hasTq) == IF hasTq THEN {"row"} ELSE InsertAnswers

SaveTrendQueryCall ==
  /\ pCalls < MaxCalls
  /\ \E owner \in BOOLEAN, create \in InsertAnswers,
        sysCreate \in SysCreateAnswers(pVersion), insert \in InsertAnswers :
       Called("saveTrendQuery", owner, FALSE,
              saveTrendQuery(pVersion, owner, pUsers, create, sysCreate, insert))

SaveRecommendationCall ==
  /\ pCalls < MaxCalls
  /\ \E owner \in BOOLEAN, create \in InsertAnswers,
        sysCreate \in SysCreateAnswers(pVersion), insert \in InsertAnswers :
       Called("saveRecommendation", owner, FALSE,
              saveRecommendation(pVersion, owner, pUsers, create, sysCreate, insert))

SaveTikTokVideoCall ==
  /\ pCalls < MaxCalls
  /\ \E hasTq \in BOOLEAN, owner \in BOOLEAN, insert \in InsertAnswers :
       \E create \in DefaultQueryAnswers(hasTq),
          sysCreate \in SysCreateAnswers(pVersion) \cap DefaultQueryAnswers(hasTq),
          tqInsert \in DefaultQueryAnswers(hasTq) :
         Called("saveTikTokVideo", owner, hasTq,
                saveTikTokVideo(pVersion, hasTq, owner, pUsers, create, sysCreate,
                                tqInsert, insert))

PersistNext == SaveTrendQueryCall \/ SaveRecommendationCall \/ SaveTikTokVideoCall

SpecPersist == PersistInit /\ [][PersistNext]_vars

\* C14: a saveTrendQuery or saveRecommendation called with an owner id looks
\* the owner up by auth_id first and, when that finds nothing, by the
\* primary key; when neither finds a row it creates a row for the owner and
\* writes with that row's id; and it throws only when that creation failed
\* or its own insert did.
C14_LookupThenPlaceholder ==
  (pLast.op \in {"saveTrendQuery", "saveRecommendation"} /\ pLast.owner) =>
    LET r == pLast.w.res
    IN /\ r.lookups[1] = "auth_id"
       /\ r.user # "auth" => (Len(r.lookups) >= 2 /\ r.lookups[2] = "id")
       /\ r.user \notin {"auth", "id"} => r.created # "none"
       /\ r.created = "ok" => r.user \in {"default", "temp"}
       /\ pLast.w.out = "threw" =>
            (r.created = "failed" \/ pLast.w.insert \in {"error", "norow"})

\* C15: a call whose own insert reports no error and returns no row throws,
\* and no call returns undefined in place of the inserted row.
C15_NoRowIsAnError ==
  pLast.op # "none" =>
    /\ pLast.w.insert = "norow" => pLast.w.out = "threw"
    /\ pLast.w.out # "undefined"

\* C16: a run of scrapeTikTokVideos without an owner id saves no trend query
\* and lists no video: a listed video carries the id of the row
\* saveTikTokVideo inserted for it (processedVideo.dbId = savedVideo.id).
C16_NoOwnerNoRows ==
  (spc # "off" /\ ~userId) => (trendQueryId = 0 /\ allVideos = <<>>)

\* C18: a well-formed search response of either upstream shape, the feed
\* search shape with code 0 or the trending shape, is accepted and its hits
\* become the candidates of the query.
C18_BothShapesAccepted ==
  \A k \in 1..Len(searchResponse) :
    LET resp == searchResponse[k]
        q == IF spc = "video" THEN qi ELSE qi - 1
    IN ((resp.kind = "feed" /\ resp.code = 0) \/ resp.kind = "trending")
         => rawHits[q] >= 0

\* The streams of a hit the revision reads: hdplay, play and wmplay of the
\* getVideo lookup; play and wmplay of the search hit; none of a trending hit.
NonWatermarked(version, c) ==
  IF version = "feedDownload" THEN c.hdplay \/ c.play
  ELSE IF version = "feedDirect" THEN c.play ELSE FALSE
Watermarked(version, c) == version # "trending" /\ c.wmplay

\* TRUE when the inner loop got as far as choosing the media URL of the hit
\* processed last.
ReachedUrlChoice ==
  video # <<>> /\ last \notin {"invalid", "noAuthor", "lookupFail"}

\* C19 as stated: a non-watermarked stream if one is exposed, otherwise the
\* watermarked stream, otherwise the platform page URL.
C19_PageUrlWhenNoStream ==
  ReachedUrlChoice =>
    LET c == video[1]
    IN /\ NonWatermarked(sVersion, c) => lastUrl \in {"hdplay", "play"}
       /\ (~NonWatermarked(sVersion, c) /\ Watermarked(sVersion, c))
            => lastUrl = "wmplay"
       /\ (~NonWatermarked(sVersion, c) /\ ~Watermarked(sVersion, c))
            => lastUrl = "page"

\* C19: the media URL is a non-watermarked stream if the revision reads one,
\* otherwise the watermarked stream; the watermarked stream is never chosen
\* while a non-watermarked one is there and a chosen stream is one the hit
\* carries. A feed hit with no stream gets no media URL and is skipped; the
\* page URL is the media URL of the trending hits only.
C19_StreamPolicy ==
  ReachedUrlChoice =>
    LET c == video[1]
    IN /\ NonWatermarked(sVersion, c) => lastUrl \in {"hdplay", "play"}
       /\ lastUrl = "hdplay" => sVersion = "feedDownload" /\ c.hdplay
       /\ lastUrl = "play" => c.play /\ ~(sVersion = "feedDownload" /\ c.hdplay)
       /\ lastUrl = "wmplay" => c.wmplay /\ ~NonWatermarked(sVersion, c)
       /\ lastUrl = "page" <=> sVersion = "trending"
       /\ lastUrl = "none" <=>
            (sVersion # "trending" /\ ~NonWatermarked(sVersion, c) /\ ~c.wmplay)
       /\ lastUrl = "none" =>
            /\ last = "noUrl"
            /\ attempts # <<>> /\ ~attempts[Len(attempts)].ok

\* C19 witness: the lookup of a hit carried only the watermarked stream and
\* the hit was saved with it.
C19_Witness ==
  /\ sVersion = "feedDownload"
  /\ video = <<[hdplay |-> FALSE, play |-> FALSE, wmplay |-> TRUE]>>
  /\ lastUrl = "wmplay"
  /\ last = "ok"

(***************************************************************************)
(* The awaits of the loops: scrapeTikTokVideos                              *)
(* (src/src/services/rapidApiService.js:26-204, with an owner id) and       *)
(* analyzeAllVideos with analyzeVideosForTrendQuery                         *)
(* (src/src/scripts/analyzeAllVideos.js:228-285). An external operation is  *)
(* issued, the code is suspended in its await, and goes on when the         *)
(* operation settles. An item is <<q, v>>: video v of query or batch q, or  *)
(* with v = 0 the operations of the query or batch itself.                  *)
(***************************************************************************)
SequenceStages == {"scrape", "analyze"}

\* The external operations of an item, in the order of their awaits.
OpsOf(stage, v) ==
  IF stage = "scrape"
    THEN IF v = 0 THEN <<"saveTrendQuery", "search">>
                  ELSE <<"getVideo", "download", "upload", "saveTikTokVideo">>
    ELSE IF v = 0 THEN <<"getVideosForTrendQuery">>
                  ELSE <<"analyzeVideo", "updateVideoAnalysis">>

\* A failed saveTrendQuery is caught on the spot and the search follows;
\* every other failure ends the item.
Swallowed(op) == op = "saveTrendQuery"

\* Each call is awaited: nothing is issued while the code is suspended.
MayIssueUnawaited(waiting) == TRUE
MayIssue(waiting) == ~waiting

SequenceInit ==
  /\ zStage \in SequenceStages
  /\ zBatches \in 1..MaxBatches
  /\ zq = 1
  /\ zv = 0
  /\ zn = 0
  /\ zop = 1
  /\ zWaiting = FALSE
  /\ inflight = <<>>
  /\ zStarted = <<>>
  /\ zDone = {}
  /\ ScrapeOff
  /\ AnalyzeOff
  /\ WorkflowOff
  /\ ReconstructOff
  /\ NormalizeOff
  /\ SummarizeOff
  /\ PersistOff
  /\ MatchOff
  /\ RouteOff
  /\ PromptOff
  /\ WebhookOff
  /\ StoreOff
  /\ FallbackOff

\* The code reaches the call of the next operation and is suspended in its
\* await.
Issue ==
  /\ zq <= zBatches
  /\ MayIssue(zWaiting)
  /\ inflight' = Append(inflight, [q |-> zq, v |-> zv, op |-> OpsOf(zStage, zv)[zop]])
  /\ zWaiting' = TRUE
  /\ zStarted' = IF zop = 1 THEN Append(zStarted, <<zq, zv>>) ELSE zStarted
  /\ UNCHANGED <<zStage, zBatches, zq, zv, zn, zop, zDone>>
  /\ UNCHANGED notSequence

\* The operation awaited settles: with a result, or with an error (a timeout
\* of the model call included). The search or listing of a query yields its
\* videos.
Settle ==
  /\ zWaiting
  /\ inflight # <<>>
  /\ \E ok \in BOOLEAN, n \in 0..MaxVPQ :
       LET op == OpsOf(zStage, zv)[zop]
           more == zop < Len(OpsOf(zStage, zv)) /\ (ok \/ Swallowed(op))
           videos == IF zv = 0 THEN (IF ok THEN n ELSE 0) ELSE zn
       IN /\ inflight' = Tail(inflight)
          /\ zWaiting' = FALSE
          /\ IF more
               THEN /\ zop' = zop + 1
                    /\ UNCHANGED <<zq, zv, zn, zDone>>
               ELSE /\ zop' = 1
                    /\ zDone' = zDone \cup {<<zq, zv>>}
                    /\ zn' = videos
                    /\ IF zv < videos
                         THEN zq' = zq /\ zv' = zv + 1
                         ELSE zq' = zq + 1 /\ zv' = 0
  /\ UNCHANGED <<zStage, zBatches, zStarted>>
  /\ UNCHANGED notSequence

SequenceNext == Issue \/ Settle

SpecSequence == SequenceInit /\ [][SequenceNext]_vars

\* C17: at most one external operation is in flight, and every item started
\* before the one started last has finished or failed.
C17_OneOperationInFlight ==
  /\ Len(inflight) <= 1
  /\ \A k \in 1..(Len(zStarted) - 1) : zStarted[k] \in zDone

\* C17 witness: the upload of the second video of the first query is in
\* flight after the first video has been dealt with.
C17_Witness ==
  /\ zStage = "scrape"
  /\ inflight = <<[q |-> 1, v |-> 2, op |-> "upload"]>>
  /\ zStarted = << <<1, 0>>, <<1, 1>>, <<1, 2>> >>
  /\ <<1, 1>> \in zDone

(***************************************************************************)
(* getVideosFromStorageBucket: src/unnamed/part_002:645-740 and            *)
(* src/src/services/supabaseService.js:614-669 (the same matching loop).   *)
(* A file name and a URL are sequences of symbols: "/" , "1", and the      *)
(* extensions ".mp4" and ".txt"; "p" is the page part of a platform URL.    *)
(* A null URL is the empty sequence.                                        *)
(***************************************************************************)
FileNames == {<<"1", ".mp4">>, <<"1", "1", ".mp4">>, <<"1", ".txt">>}

\* Listings of a folder: its file names are distinct.
Listings ==
  {fs \in UNION {[1..n -> FileNames] : n \in 0..MaxFiles} :
     \A a, b \in DOMAIN fs : a # b => fs[a] # fs[b]}

DownloadUrls == {<<>>, <<"/", "1", ".mp4">>, <<"/", "1", "1", ".mp4">>}
VideoUrls == {<<>>, <<"/", "p">>, <<"/", "1", ".mp4">>}
RecordLists ==
  UNION {[1..n -> [download_url : DownloadUrls, video_url : VideoUrls]] :
           n \in 0..MaxRecords}

\* String.prototype.includes
Includes(url, name) ==
  \E i \in 0..(Len(url) - Len(name)) : SubSeq(url, i + 1, i + Len(name)) = name

\* urlParts[urlParts.length - 1] of url.split('/')
RECURSIVE LastPart(_)
LastPart(url) ==
  IF url = <<>> \/ url[Len(url)] = "/" THEN <<>>
  ELSE LastPart(SubSeq(url, 1, Len(url) - 1)) \o <<url[Len(url)]>>

\* file.name.endsWith('.mp4')
EndsWithMp4(name) == name # <<>> /\ name[Len(name)] = ".mp4"

\* The two matching strategies of the inner loop body.
RecordMatches(v, name) ==
  \/ v.download_url # <<>> /\ Includes(v.download_url, name)
  \/ v.video_url # <<>> /\ Includes(v.video_url, name)
  \/ v.download_url # <<>> /\ LastPart(v.download_url) = name

\* The inner loop: positions of the records that become dbVideo. The loop
\* breaks at the first match.
FindRecordNoBreak(name, dbVideos) ==
  SelectSeq([k \in DOMAIN dbVideos |-> k],
            LAMBDA k : RecordMatches(dbVideos[k], name))
FindRecord(name, dbVideos) ==
  LET found == {k \in DOMAIN dbVideos : RecordMatches(dbVideos[k], name)}
  IN IF found = {} THEN <<>>
     ELSE <<CHOOSE k \in found : \A j \in found : k <= j>>

\* The records matched against: the argument, or the selected rows when the
\* argument is empty.
EffectiveRecords == IF gArg = <<>> THEN gTable ELSE gArg

\* The table is read only when the argument is empty.
MatchInit ==
  /\ gFiles \in Listings
  /\ gArg \in RecordLists
  /\ gTable \in (IF gArg = <<>> THEN RecordLists ELSE {<<>>})
  /\ gpc = "idle"
  /\ gi = 0
  /\ videoObjects = <<>>
  /\ gResults = <<>>
  /\ ScrapeOff
  /\ AnalyzeOff
  /\ WorkflowOff
  /\ ReconstructOff
  /\ NormalizeOff
  /\ SummarizeOff
  /\ PersistOff
  /\ SequenceOff
  /\ RouteOff
  /\ PromptOff
  /\ WebhookOff
  /\ StoreOff
  /\ FallbackOff

\* The call up to the loop: the listing, and the select when the argument is
\* empty, succeed.
ListFiles ==
  /\ gpc = "idle"
  /\ Len(gResults) < MaxCalls
  /\ gpc' = "loop"
  /\ gi' = 1
  /\ videoObjects' = <<>>
  /\ UNCHANGED <<gFiles, gArg, gTable, gResults>>
  /\ UNCHANGED notMatch

\* The listing or the select fails: the catch rethrows.
ListFilesThrows ==
  /\ gpc = "idle"
  /\ Len(gResults) < MaxCalls
  /\ gResults' = Append(gResults, [out |-> "threw", objects |-> <<>>])
  /\ UNCHANGED <<gFiles, gArg, gTable, gpc, gi, videoObjects>>
  /\ UNCHANGED notMatch

\* One pass of the for-of loop over files.
MatchFile ==
  /\ gpc = "loop"
  /\ gi <= Len(gFiles)
  /\ LET name == gFiles[gi]
         hits == IF EndsWithMp4(name)
                   THEN FindRecord(name, EffectiveRecords) ELSE <<>>
     IN videoObjects' = videoObjects \o
          [k \in DOMAIN hits |-> [id |-> hits[k], fileName |-> name]]
  /\ gi' = gi + 1
  /\ UNCHANGED <<gFiles, gArg, gTable, gpc, gResults>>
  /\ UNCHANGED notMatch

\* return videoObjects
ReturnObjects ==
  /\ gpc = "loop"
  /\ gi > Len(gFiles)
  /\ gResults' = Append(gResults, [out |-> "returned", objects |-> videoObjects])
  /\ gpc' = "idle"
  /\ gi' = 0
  /\ videoObjects' = <<>>
  /\ UNCHANGED <<gFiles, gArg, gTable>>
  /\ UNCHANGED notMatch

MatchNext == ListFiles \/ ListFilesThrows \/ MatchFile \/ ReturnObjects

SpecMatch == MatchInit /\ [][MatchNext]_vars

SummaryKeys == {"id", "views"}

\* video.summary: something that is neither a string nor an object, a string
\* JSON.parse rejects, a string that parses to a number or null, a string
\* that parses to an object, an object.
VideoSummaries ==
  [kind : {"other", "text", "scalar"}, keys : {{}}]
    \cup [kind : {"json", "object"}, keys : SUBSET SummaryKeys]

\* The elements of analyzedVideos; null is an element the map cannot read.
AnalyzedVideos ==
  [isNull : {FALSE}, id : {"id1", "id2"}, views : {"views"}, likes : {"likes"},
   comments : {"comments"}, shares : {"shares"}, summary : VideoSummaries]
    \cup {[isNull |-> TRUE, id |-> "id1", views |-> "views", likes |-> "likes",
           comments |-> "comments", shares |-> "shares",
           summary |-> [kind |-> "other", keys |-> {}]]}

RequestBodies ==
  [kind : {"missing", "notArray"}, videos : {<<>>}]
    \cup [kind : {"array"},
          videos : UNION {[1..n -> AnalyzedVideos] : n \in 0..MaxAnalyzed}]

\* The guard of the 400 response.
RejectedMissingOnly(body) == body.kind = "missing"
Rejected(body) == body.kind # "array" \/ Len(body.videos) = 0

\* The keys of analysisData.
AnalysisKeys(videoSummary) ==
  IF videoSummary.kind = "text" THEN {"summary"}
  ELSE IF videoSummary.kind \in {"json", "object"} THEN videoSummary.keys
  ELSE {}

\* The object literal of the map callback: id, then the spread of
\* analysisData, then views, likes, comments, shares and title. A later key
\* replaces an earlier one.
ProjectedKeys == {"id", "summary", "views", "likes", "comments", "shares", "title"}
ProjectAnalysis(v) ==
  [f \in ProjectedKeys |->
     IF f \in {"views", "likes", "comments", "shares"} THEN v[f]
     ELSE IF f = "title" THEN "title"
     ELSE IF f \in AnalysisKeys(v.summary) THEN "fromSummary"
     ELSE IF f = "id" THEN v.id
     ELSE "undefined"]

RouteInit ==
  /\ tBody \in RequestBodies
  /\ tpc = "received"
  /\ tAnalyses = <<>>
  /\ tResponses = <<>>
  /\ tModelCalls = 0
  /\ ScrapeOff
  /\ AnalyzeOff
  /\ WorkflowOff
  /\ ReconstructOff
  /\ NormalizeOff
  /\ SummarizeOff
  /\ PersistOff
  /\ SequenceOff
  /\ MatchOff
  /\ PromptOff
  /\ WebhookOff
  /\ StoreOff
  /\ FallbackOff

Response(status, success) == [status |-> status, success |-> success, message |-> ~success]

\* return res.status(400).json(...)
RejectRequest ==
  /\ tpc = "received"
  /\ Rejected(tBody)
  /\ tResponses' = Append(tResponses, Response(400, FALSE))
  /\ tpc' = "done"
  /\ UNCHANGED <<tBody, tAnalyses, tModelCalls>>
  /\ UNCHANGED notRoute

\* analyzedVideos.map(...): reading video.summary of a null element throws
\* and the catch answers 500 with the message of the error.
ProjectVideos ==
  /\ tpc = "received"
  /\ ~Rejected(tBody)
  /\ IF \E k \in DOMAIN tBody.videos : tBody.videos[k].isNull
       THEN /\ tResponses' = Append(tResponses, Response(500, FALSE))
            /\ tpc' = "done"
            /\ UNCHANGED tAnalyses
       ELSE /\ tAnalyses' = [k \in DOMAIN tBody.videos |-> ProjectAnalysis(tBody.videos[k])]
            /\ tpc' = "projected"
            /\ UNCHANGED tResponses
  /\ UNCHANGED <<tBody, tModelCalls>>
  /\ UNCHANGED notRoute

\* await summarizeTrends(...): it returns and res.json answers, or it throws
\* Error('Failed to summarize trends') and the catch answers 500.
SummarizeAndRespond ==
  /\ tpc = "projected"
  /\ tModelCalls' = tModelCalls + 1
  /\ \E returned \in BOOLEAN :
       tResponses' = Append(tResponses,
                            IF returned THEN Response(200, TRUE) ELSE Response(500, FALSE))
  /\ tpc' = "done"
  /\ UNCHANGED <<tBody, tAnalyses>>
  /\ UNCHANGED notRoute

RouteNext == RejectRequest \/ ProjectVideos \/ SummarizeAndRespond

\* Every awaited call settles, so the handler runs to its end.
SpecRoute == RouteInit /\ [][RouteNext]_vars /\ WF_vars(RouteNext)

\* C21: the request is answered, and never twice; a missing, non-array or
\* empty analyzedVideos is answered 400 with a message and without a model
\* call, no other request is answered 400, a 500 carries a message and
\* success false, and a request whose summarization returned is answered
\* with success.
C21_OneResponsePerRequest ==
  /\ [](/\ Len(tResponses) <= 1
        /\ tModelCalls <= 1
        /\ (tpc = "done") <=> (Len(tResponses) = 1)
        /\ \A k \in DOMAIN tResponses :
             LET r == tResponses[k]
             IN /\ r.status \in {200, 400, 500}
                /\ (r.status = 400) <=> Rejected(tBody)
                /\ (r.status = 400) <=> (tBody.kind # "array" \/ tBody.videos = <<>>)
                /\ r.status = 400 => tModelCalls = 0
                /\ r.status # 200 => r.message /\ ~r.success
                /\ r.status = 200 => r.success /\ tModelCalls = 1)
  /\ <>(Len(tResponses) = 1)

\* C21 witness: an empty array was answered 400 and no model call was made.
C21_Witness ==
  /\ tBody = [kind |-> "array", videos |-> <<>>]
  /\ tResponses = <<Response(400, FALSE)>>
  /\ tModelCalls = 0

\* C30: each projected analysis keeps the id, views, likes, comments and
\* shares of its input video.
C30_ProjectionKeepsIdentity ==
  \A k \in DOMAIN tAnalyses :
    \A f \in {"id", "views", "likes", "comments", "shares"} :
      tAnalyses[k][f] = tBody.videos[k][f]

(***************************************************************************)
(* The analysis data reconstructVideos inlines in its prompt:               *)
(* src/unnamed/part_003:151-171 (the revision with section headings),       *)
(* src/src/services/openrouterService.js:119-130 and                        *)
(* src/unnamed/part_005:96-106. An empty string is a missing field.         *)
(***************************************************************************)
PromptVideos ==
  [searchQuery : {"q"}, url : {"", "u"}, id : {"", "i"}, dbId : {"d"},
   title : {"t1", "t2"}, description : {"d"}, transcript : {"x", "y"},
   views : {"v"}]

PromptInputs == UNION {[1..n -> PromptVideos] : n \in 0..MaxPromptVideos}

\* The element of leanAnalyzedVideos made of a video (part_003:152-159).
LeanVideo(v) ==
  [searchQuery |-> v.searchQuery,
   url |-> IF v.url # "" THEN v.url ELSE IF v.id # "" THEN v.id ELSE v.dbId,
   title |-> v.title,
   description |-> v.description]

\* What JSON.stringify is applied to in the template of the prompt.
PromptData(version, analyzedVideos) ==
  IF version = "headings"
    THEN [k \in DOMAIN analyzedVideos |-> LeanVideo(analyzedVideos[k])]
    ELSE analyzedVideos

PromptInit ==
  /\ yVersion \in ReconstructVersions
  /\ yInputs \in [1..2 -> PromptInputs]
  /\ yPrompts = <<>>
  /\ ScrapeOff
  /\ AnalyzeOff
  /\ WorkflowOff
  /\ ReconstructOff
  /\ NormalizeOff
  /\ SummarizeOff
  /\ PersistOff
  /\ SequenceOff
  /\ MatchOff
  /\ RouteOff
  /\ WebhookOff
  /\ StoreOff
  /\ FallbackOff

\* The request of one call: the prompt names the number of videos and
\* inlines the analysis data.
SendPrompt ==
  /\ Len(yPrompts) < Len(yInputs)
  /\ LET analyzedVideos == yInputs[Len(yPrompts) + 1]
     IN yPrompts' = Append(yPrompts,
                           [count |-> Len(analyzedVideos),
                            data |-> PromptData(yVersion, analyzedVideos)])
  /\ UNCHANGED <<yVersion, yInputs>>
  /\ UNCHANGED notPrompt

PromptNext == SendPrompt

SpecPrompt == PromptInit /\ [][PromptNext]_vars

\* C22: two calls whose analysed videos agree in search term, identifying
\* URL, title and description send the same prompt, whatever their other
\* fields are.
C22_PromptFromProjection ==
  (/\ Len(yPrompts) = 2
   /\ Len(yInputs[1]) = Len(yInputs[2])
   /\ \A k \in DOMAIN yInputs[1] :
        \A f \in {"searchQuery", "url", "id", "dbId", "title", "description"} :
          yInputs[1][k][f] = yInputs[2][k][f])
    => yPrompts[1] = yPrompts[2]

(***************************************************************************)
(* The Stripe webhook: src/src/routes/stripeRoutes.js:123-476 and           *)
(* src/unnamed/part_001:89-143. stripeRoutes.js falls back to a mock stripe *)
(* object when the import fails (lines 13-37); its constructEvent verifies  *)
(* nothing and returns an event of type mock_event.                         *)
(***************************************************************************)
WebhookVersions == {"stripeRoutes", "part001"}

EventTypes ==
  {"checkout.session.completed", "customer.subscription.updated",
   "customer.subscription.deleted", "payment_intent.succeeded",
   "payment_intent.payment_failed", "other"}

\* What the processing of an event meets: no user id in the metadata, a
\* Stripe retrieve that throws, an update that answers an error, throws or
\* matches no row, an update that changes the row.
Processings == {"noUserId", "retrieveThrows", "dbError", "dbThrows", "noRow", "updated"}

WebhookRequests == [signed : BOOLEAN, type : EventTypes, meets : Processings]

\* The cases of the switch that update the users table.
Updating(version, type) ==
  IF version = "stripeRoutes"
    THEN type \in {"checkout.session.completed", "customer.subscription.updated",
                   "customer.subscription.deleted"}
    ELSE type = "payment_intent.succeeded"

\* stripe.webhooks.constructEvent: the type of the event, "throws" for a
\* signature that does not verify.
constructEvent(stripeObject, request) ==
  IF stripeObject = "mock" THEN "mock_event"
  ELSE IF request.signed THEN request.type ELSE "throws"

\* catch (err) of constructEvent: return res.status(400).send(...)
OnVerifyFailureGoOn(version) == "goOn"
OnVerifyFailure(version) == "return"

WebhookInit ==
  /\ hVersion \in WebhookVersions
  /\ hStripe \in (IF hVersion = "stripeRoutes" THEN {"real", "mock"} ELSE {"real"})
  /\ hpc = "idle"
  /\ hEvent = <<>>
  /\ hChanged = FALSE
  /\ hResponses = <<>>
  /\ hLog = <<>>
  /\ ScrapeOff
  /\ AnalyzeOff
  /\ WorkflowOff
  /\ ReconstructOff
  /\ NormalizeOff
  /\ SummarizeOff
  /\ PersistOff
  /\ SequenceOff
  /\ MatchOff
  /\ RouteOff
  /\ PromptOff
  /\ StoreOff
  /\ FallbackOff

Handled(request, type, changed, responses) ==
  [request |-> request, type |-> type, changed |-> changed, responses |-> responses]

\* A request arrives and constructEvent is applied to it.
VerifyEvent ==
  /\ hpc = "idle"
  /\ \E request \in WebhookRequests :
       LET type == constructEvent(hStripe, request)
       IN IF type = "throws" /\ OnVerifyFailure(hVersion) = "return"
            THEN /\ hLog' = <<Handled(request, type, FALSE, <<400>>)>>
                 /\ UNCHANGED <<hpc, hEvent, hChanged, hResponses>>
            ELSE /\ hpc' = "verified"
                 /\ hEvent' = <<[request |-> request,
                                type |-> IF type = "throws" THEN request.type ELSE type]>>
                 /\ hChanged' = FALSE
                 /\ hResponses' = IF type = "throws" THEN <<400>> ELSE <<>>
                 /\ UNCHANGED hLog
  /\ UNCHANGED <<hVersion, hStripe>>
  /\ UNCHANGED notWebhook

\* The switch: an updating case looks for the user id, asks Stripe where the
\* revision does, and updates the users row; whatever is thrown or answered
\* is logged and the handler goes on.
ProcessEvent ==
  /\ hpc = "verified"
  /\ LET e == hEvent[1]
         meets == IF hVersion = "part001" /\ e.request.meets = "retrieveThrows"
                    THEN "updated" ELSE e.request.meets
     IN hChanged' = (Updating(hVersion, e.type) /\ meets = "updated")
  /\ hpc' = "processed"
  /\ UNCHANGED <<hVersion, hStripe, hEvent, hResponses, hLog>>
  /\ UNCHANGED notWebhook

\* res.json({ received: true })
Acknowledge ==
  /\ hpc = "processed"
  /\ hLog' = <<Handled(hEvent[1].request, hEvent[1].type, hChanged,
                        Append(hResponses, 200))>>
  /\ hpc' = "idle"
  /\ hEvent' = <<>>
  /\ hChanged' = FALSE
  /\ hResponses' = <<>>
  /\ UNCHANGED <<hVersion, hStripe>>
  /\ UNCHANGED notWebhook

WebhookNext == VerifyEvent \/ ProcessEvent \/ Acknowledge

SpecWebhook == WebhookInit /\ [][WebhookNext]_vars

\* C23: a request whose signature verification fails is answered 400 and
\* changes no users row; every other request is answered 200 once, whatever
\* its processing meets, and changes a users row only if its event type is
\* one the switch updates for.
C23_WebhookAnswersOnce ==
  /\ Len(hResponses) = 0
  /\ \A k \in DOMAIN hLog :
       LET h == hLog[k]
       IN /\ h.type = "throws" <=> (hStripe = "real" /\ ~h.request.signed)
          /\ h.type = "throws" => (h.responses = <<400>> /\ ~h.changed)
          /\ h.type # "throws" => h.responses = <<200>>
          /\ h.changed => (Updating(hVersion, h.type) /\ h.request.meets \in {"updated", "retrieveThrows"})
          /\ ~Updating(hVersion, h.type) => ~h.changed

\* C23 witness: a signed checkout event whose update answered an error was
\* answered 200 and changed no row.
C23_Witness ==
  /\ hVersion = "stripeRoutes"
  /\ hStripe = "real"
  /\ Len(hLog) = 1
  /\ hLog[1].type = "checkout.session.completed"
  /\ hLog[1].request.meets = "dbError"
  /\ hLog[1].responses = <<200>>
  /\ ~hLog[1].changed

\* The rows of a table among a sequence of rows.
RowsOf(rows, table) == SelectSeq(rows, LAMBDA r : r.table = table)

\* C24: saveTikTokVideo of supabaseService.js inserts no tiktok_videos row
\* without a trend_query_id: a call without one inserts the video only
\* after the row of a default trend query, with the id of that row, and a
\* call whose default trend query yields no id throws and inserts no video.
C24_VideoRowHasTrendQuery ==
  pVersion = "supabase" =>
    /\ \A k \in DOMAIN pRows :
         pRows[k].table = "tiktok_videos" => pRows[k].tq \in {"passed", "default"}
    /\ (pLast.op = "saveTikTokVideo" /\ ~pLast.hasTq) =>
         LET videos == RowsOf(pLast.w.rows, "tiktok_videos")
             queries == RowsOf(pLast.w.rows, "trend_queries")
         IN /\ videos # <<>> =>
                 /\ videos = <<VideoRow("default")>>
                 /\ Len(queries) = 1
                 /\ pLast.w.rows[1].table = "trend_queries"
            /\ queries = <<>> => (videos = <<>> /\ pLast.w.out = "threw")
            /\ pLast.w.out = "threw" => videos = <<>>

\* C24 witness: a save without trend query id inserted a default trend
\* query and then the video with its id.
C24_Witness ==
  /\ pVersion = "supabase"
  /\ pLast.op = "saveTikTokVideo"
  /\ ~pLast.hasTq
  /\ pLast.w.out = "row"
  /\ Len(pLast.w.rows) = 2
  /\ pLast.w.rows[1].table = "trend_queries"
  /\ pLast.w.rows[2] = VideoRow("default")

(***************************************************************************)
(* scrapeTikTokVideos (src/src/services/rapidApiService.js:20-213; the file *)
(* names are made alike in src/unnamed/part_005:426-429) together with what *)
(* it writes: the files of the bucket (uploadVideoToSupabase,               *)
(* supabaseService.js:48-75, upsert) and the rows of trend_queries and      *)
(* tiktok_videos (saveTrendQuery, saveTikTokVideo).                         *)
(***************************************************************************)
StoreQueryCounts == {1, 2}

\* The runs followed: one or two queries, MaxStaged videos to process at most.
StoreRuns ==
  {h \in UNION {[1..n -> 0..MaxStaged] : n \in StoreQueryCounts} :
     SumSeq(h) <= MaxStaged}

\* The users table holds the row of the owner.
StoreUsers == {{"auth"}}

\* The answers of the inserts of saveTikTokVideo that a pass makes: none
\* unless the file was staged.
SaveAnswers(stage) == IF stage = "staged" THEN InsertAnswers ELSE {"row"}

\* Math.floor(Math.random() * 10000), two of its values; one of them once
\* the clock has advanced.
RandomSuffixes(step) == IF step = 0 THEN {0, 1} ELSE {0}

\* Date.now() counts milliseconds of the wall clock: since the file name
\* before it has advanced, or has not.
ClockSteps == {0, 1}

\* fileName: tq-<trendQueryId>-video-<now>-<random>.mp4, or without the
\* prefix when trendQueryId is null.
FileName(tq, now, random) == <<tq, now, random>>

\* allVideos.push follows the upload and savedVideo.id.
ListedOnUpload(stage, w) == stage = "staged"
Listed(stage, w) == stage = "staged" /\ w.out = "row"

StoreInit ==
  /\ bPersist \in PersistVersions
  /\ bOwner \in BOOLEAN
  /\ bUsers \in StoreUsers
  /\ bHits \in StoreRuns
  /\ bpc = "query"
  /\ bq = 1
  /\ bi = 0
  /\ bn = 0
  /\ bTrendQueryId = 0
  /\ bNow = 0
  /\ uploads = <<>>
  /\ trendQueries = <<>>
  /\ videoRows = <<>>
  /\ bAll = <<>>
  /\ ScrapeOff
  /\ AnalyzeOff
  /\ WorkflowOff
  /\ ReconstructOff
  /\ NormalizeOff
  /\ SummarizeOff
  /\ PersistOff
  /\ SequenceOff
  /\ MatchOff
  /\ RouteOff
  /\ PromptOff
  /\ WebhookOff
  /\ FallbackOff

\* The head of the outer loop: saveTrendQuery when an owner id is present
\* (savedQuery.id throws when no row came back, which the catch swallows),
\* then the search, which yields n videos to process.
StoreBeginQuery ==
  /\ bpc = "query"
  /\ bq <= Len(bHits)
  /\ \E insert \in (IF bOwner THEN InsertAnswers ELSE {"row"}) :
       LET w == saveTrendQuery(bPersist, TRUE, bUsers, "row", "row", insert)
           n == bHits[bq]
           rows == IF bOwner THEN RowsOf(w.rows, "trend_queries") ELSE <<>>
       IN /\ trendQueries' = trendQueries \o
               [k \in DOMAIN rows |-> [q |-> bq, by |-> "scrapeTikTokVideos"]]
          /\ bTrendQueryId' = IF bOwner /\ w.out = "row" THEN Len(trendQueries') ELSE 0
          /\ bUsers' = IF bOwner THEN w.users ELSE bUsers
          /\ bn' = n
          /\ IF n > 0 THEN bpc' = "video" /\ bq' = bq /\ bi' = 1
                      ELSE bpc' = "query" /\ bq' = bq + 1 /\ bi' = 0
  /\ UNCHANGED <<bPersist, bOwner, bHits, bNow, uploads, videoRows, bAll>>
  /\ UNCHANGED notStore

\* The loop goes on with the next video, or with the next query.
StoreAdvance ==
  IF bi < bn THEN bpc' = "video" /\ bq' = bq /\ bi' = bi + 1
             ELSE bpc' = "query" /\ bq' = bq + 1 /\ bi' = 0

\* A pass of the inner loop that leaves before a file name is made: an
\* invalid hit, a failed lookup, no media URL.
StoreSkipVideo ==
  /\ bpc = "video"
  /\ StoreAdvance
  /\ UNCHANGED <<bPersist, bOwner, bUsers, bHits, bn, bTrendQueryId, bNow,
                 uploads, trendQueries, videoRows, bAll>>
  /\ UNCHANGED notStore

\* A pass of the inner loop from the file name on: download and upload,
\* then saveTikTokVideo and the push.
StoreProcessVideo ==
  /\ bpc = "video"
  /\ \E step \in ClockSteps, stage \in {"downloadFail", "uploadFail", "staged"} :
     \E random \in RandomSuffixes(step), create \in {"row"}, sysCreate \in {"row"},
        insert \in SaveAnswers(stage),
        tqInsert \in SaveAnswers(stage) \cap DefaultQueryAnswers(bTrendQueryId # 0) :
       LET name == FileName(bTrendQueryId, bNow + step, random)
           w == saveTikTokVideo(bPersist, bTrendQueryId # 0, bOwner, bUsers, create,
                                sysCreate, tqInsert, insert)
           defaults == RowsOf(w.rows, "trend_queries")
           saved == RowsOf(w.rows, "tiktok_videos")
       IN /\ bNow' = bNow + step
          /\ IF stage = "staged"
               THEN /\ uploads' = Append(uploads, [name |-> name, q |-> bq, i |-> bi])
                    /\ trendQueries' = trendQueries \o
                         [k \in DOMAIN defaults |-> [q |-> bq, by |-> "saveTikTokVideo"]]
                    /\ videoRows' = videoRows \o
                         [k \in DOMAIN saved |->
                            [q |-> bq, i |-> bi, url |-> name,
                             tq |-> IF saved[k].tq = "passed" THEN bTrendQueryId
                                    ELSE IF saved[k].tq = "default" THEN Len(trendQueries')
                                    ELSE 0]]
                    /\ bUsers' = w.users
               ELSE UNCHANGED <<uploads, trendQueries, videoRows, bUsers>>
          /\ bAll' = IF Listed(stage, w)
                       THEN Append(bAll, [q |-> bq, i |-> bi, supabaseUrl |-> <<name>>,
                                          dbId |-> IF w.out = "row" THEN <<Len(videoRows')>>
                                                                    ELSE <<>>])
                       ELSE bAll
  /\ StoreAdvance
  /\ UNCHANGED <<bPersist, bOwner, bHits, bn, bTrendQueryId>>
  /\ UNCHANGED notStore

\* return allVideos
StoreReturn ==
  /\ bpc = "query"
  /\ bq > Len(bHits)
  /\ bpc' = "done"
  /\ UNCHANGED <<bPersist, bOwner, bUsers, bHits, bq, bi, bn, bTrendQueryId, bNow,
                 uploads, trendQueries, videoRows, bAll>>
  /\ UNCHANGED notStore

StoreNext == StoreBeginQuery \/ StoreSkipVideo \/ StoreProcessVideo \/ StoreReturn

SpecStore == StoreInit /\ [][StoreNext]_vars

\* C25: every video of the list has a storage URL and a dbId, its file was
\* uploaded and its row is in tiktok_videos; a video whose file was uploaded
\* and whose save failed is not in the list.
C25_ListedAfterUploadAndSave ==
  /\ \A k \in DOMAIN bAll :
       /\ bAll[k].supabaseUrl # <<>>
       /\ bAll[k].dbId # <<>>
       /\ \E u \in DOMAIN uploads :
            /\ uploads[u].name = bAll[k].supabaseUrl[1]
            /\ uploads[u].q = bAll[k].q /\ uploads[u].i = bAll[k].i
       /\ \A d \in DOMAIN bAll[k].dbId :
            /\ bAll[k].dbId[d] \in DOMAIN videoRows
            /\ videoRows[bAll[k].dbId[d]].q = bAll[k].q
            /\ videoRows[bAll[k].dbId[d]].i = bAll[k].i
  /\ Len(bAll) <= Len(uploads)

\* C25 witness: the file of the first video was uploaded and its save
\* failed, the second video was uploaded and saved; only the second is in
\* the list.
C25_Witness ==
  /\ Len(uploads) = 2
  /\ uploads[1].q = 1 /\ uploads[1].i = 1
  /\ Len(videoRows) = 1
  /\ Len(bAll) = 1
  /\ bAll[1].q = 1 /\ bAll[1].i = 2
  /\ bAll[1].dbId = <<1>>


\* C28: within a run the file names of the uploads are pairwise distinct:
\* no upload overwrites the file of another video and no two videos of the
\* list share a storage URL.
C28_FileNamesDistinct ==
  /\ \A j, k \in DOMAIN uploads :
       j # k => uploads[j].name # uploads[k].name
  /\ \A j, k \in DOMAIN bAll :
       j # k => bAll[j].supabaseUrl # bAll[k].supabaseUrl


\* C29: a run inserts at most one trend_queries row for each search query,
\* and every tiktok_videos row saved for a query references the row of its
\* query.
C29_OneTrendQueryPerSearch ==
  /\ \A j, k \in DOMAIN trendQueries :
       j # k => trendQueries[j].q # trendQueries[k].q
  /\ \A v \in DOMAIN videoRows :
       /\ videoRows[v].tq \in DOMAIN trendQueries
       /\ trendQueries[videoRows[v].tq].q = videoRows[v].q


\* The rows of users made by the persistence service itself: the default
\* row of an owner, the temporary user, the system user.
PlaceholderUsers == {"default", "temp", "system"}

\* C27: a trend query written by saveTrendQuery is attributed to the user
\* of the supplied owner id or to a placeholder or system user; a row taken
\* from the users table by the select without condition is one of those
\* only when the table holds no other rows.
C27_OwnerOrPlaceholder ==
  (pLast.op = "saveTrendQuery" /\ pLast.w.rows # <<>>) =>
    LET u == pLast.w.rows[1].user
    IN /\ u \in {"auth", "id", "any"} \cup PlaceholderUsers
       /\ u \in {"auth", "id"} => pLast.owner
       /\ u = "any" => pUsers \subseteq PlaceholderUsers


\* ---------------------------------------------------------------------------
\* The system user of part_002 under concurrent calls: saveTrendQuery
\* (lines 236-271) and saveRecommendation (lines 428-462) select the row of
\* system@lazytrend.com and insert it when the select shows none. Each await
\* is a point where another call can run.
\* ---------------------------------------------------------------------------
MaxCallers == 2
Callers == 1..MaxCallers
FallbackOps == {"saveTrendQuery", "saveRecommendation"}

\* .eq('email', 'system@lazytrend.com').maybeSingle(): the row, null when
\* there is none, an error when there are several or when the request fails.
SystemLookup(rows, fails) ==
  IF fails \/ rows > 1 THEN "error"
  ELSE IF rows = 1 THEN "row" ELSE "null"

\* if (!systemError && systemUser): the row is used; else one is inserted.
SystemFound(answer) == answer = "row"

FallbackInit ==
  /\ kop \in [Callers -> FallbackOps]
  /\ kpc = [c \in Callers |-> "lookup"]
  /\ kUser = [c \in Callers |-> 0]
  /\ systemUsers \in {0, 1}
  /\ ScrapeOff
  /\ AnalyzeOff
  /\ WorkflowOff
  /\ ReconstructOff
  /\ NormalizeOff
  /\ SummarizeOff
  /\ PersistOff
  /\ SequenceOff
  /\ MatchOff
  /\ RouteOff
  /\ PromptOff
  /\ WebhookOff
  /\ StoreOff

\* The select of the system user settles.
LookupSystemUser(c) ==
  /\ kpc[c] = "lookup"
  /\ \E fails \in BOOLEAN :
       LET answer == SystemLookup(systemUsers, fails)
       IN IF SystemFound(answer)
            THEN /\ kUser' = [kUser EXCEPT ![c] = 1]
                 /\ kpc' = [kpc EXCEPT ![c] = "insert"]
            ELSE /\ kUser' = kUser
                 /\ kpc' = [kpc EXCEPT ![c] = "create"]
  /\ UNCHANGED <<kop, systemUsers>>
  /\ UNCHANGED notFallback

\* The insert of the system user settles: with the new row, with an error
\* (the call throws), or with no error and no row (the call throws, the row
\* is there).
CreateSystemUser(c) ==
  /\ kpc[c] = "create"
  /\ \E answer \in InsertAnswers :
       /\ systemUsers' = IF answer = "error" THEN systemUsers ELSE systemUsers + 1
       /\ kUser' = [kUser EXCEPT ![c] = IF answer = "row" THEN systemUsers' ELSE 0]
       /\ kpc' = [kpc EXCEPT ![c] = IF answer = "row" THEN "insert" ELSE "threw"]
  /\ UNCHANGED kop
  /\ UNCHANGED notFallback

\* The insert into trend_queries or recommendations with the user_id found.
InsertRow(c) ==
  /\ kpc[c] = "insert"
  /\ \E answer \in InsertAnswers :
       kpc' = [kpc EXCEPT ![c] = IF ReturnOf(kop[c], answer) = "threw"
                                   THEN "threw" ELSE "returned"]
  /\ UNCHANGED <<kop, kUser, systemUsers>>
  /\ UNCHANGED notFallback

FallbackNext ==
  \E c \in Callers : LookupSystemUser(c) \/ CreateSystemUser(c) \/ InsertRow(c)

SpecFallback == FallbackInit /\ [][FallbackNext]_vars

\* C26: after any interleaving of calls that fall back to the system user,
\* and after any sequence of them in which a lookup fails, at most one users
\* row has the email system@lazytrend.com.
C26_OneSystemUser == systemUsers <= 1

=============================================================================
